---- MODULE Spec2Model ----
(***************************************************************************)
(* Open Jobs Status Tracker: the reconciliation of a freshly imported      *)
(* Excel batch against the persisted job table (data_utils.process_data),  *)
(* driven by the application shell (app_shell.OpenJobsApp) and the edits   *)
(* of the Data Management tab.                                             *)
(*                                                                         *)
(* Data representation.  A cell value is a record whose field name tells   *)
(* its Python type: [null |-> ..] for None / NaT / NaN, [num |-> n],       *)
(* [date |-> d] (a day number) and [str |-> t] where a text t is a         *)
(* sequence of string tokens.  A DataFrame is [columns, rows]: the ordered *)
(* column labels and the sequence of rows, each row a function from the    *)
(* column labels to cell values.                                           *)
(***************************************************************************)
EXTENDS Integers, Sequences, FiniteSets, TLC

\* ------------------------------------------------------------------ bounds
MaxSteps == 2
MaxClock == 1
MaxDay == 60
MaxReportImports == 1

\* ------------------------------------------------------------- config.py
EXPECTED_COLUMNS ==
  << "Invoice #", "Order Date", "Turn in Date", "Account",
     "Invoice Total", "Balance", "Salesperson", "Project Coordinator",
     "Status", "Notes" >>

ALLOWED_STATUS ==
  << "Waiting Measure", "Ready to order", "Waiting for materials",
     "Ready to dispatch", "In install", "Done", "Permit",
     "Cancelled/Postponed", "New", "Closed",
     "Review - Missing from Report" >>

REVIEW_MISSING_STATUS == "Review - Missing from Report"

key_column == "Invoice #"

date_cols_config == {"Order Date", "Turn in Date"}

\* ------------------------------------------------------------ cell values
None == [null |-> "None"]
NaT == [null |-> "NaT"]
NaN == [null |-> "NaN"]
Num(n) == [num |-> n]
Date(d) == [date |-> d]
Str(t) == [str |-> t]

notna(v) == "null" \notin DOMAIN v

Range(s) == {s[i] : i \in DOMAIN s}

\* Python truthiness of a cell value: None and the empty string are falsy.
truthy(v) == notna(v) /\ (("str" \in DOMAIN v) => v.str # << >>)

\* str(x) for the cell values of this model, as a token sequence.
DigitStr == << "0", "1", "2", "3", "4", "5", "6", "7", "8", "9" >>

py_str(v) ==
  IF "str" \in DOMAIN v THEN v.str
  ELSE IF "num" \in DOMAIN v THEN << DigitStr[v.num + 1] >>
  ELSE IF "float" \in DOMAIN v THEN << DigitStr[v.float + 1], ".", "0" >>
  ELSE IF "date" \in DOMAIN v THEN << "d", DigitStr[v.date + 1] >>
  ELSE IF v = None THEN << "N", "o", "n", "e" >>
  ELSE IF v = NaT THEN << "N", "a", "T" >>
  ELSE << "n", "a", "n" >>

\* str.strip(): leading and trailing whitespace tokens are removed.
Whitespace == {" ", "\n"}

RECURSIVE lstrip(_)
lstrip(t) ==
  IF t # << >> /\ Head(t) \in Whitespace THEN lstrip(Tail(t)) ELSE t

RECURSIVE rstrip(_)
rstrip(t) ==
  IF t # << >> /\ t[Len(t)] \in Whitespace
  THEN rstrip(SubSeq(t, 1, Len(t) - 1)) ELSE t

strip(t) == rstrip(lstrip(t))

\* datetime.strftime('%Y-%m-%d %H:%M') of the clock reading c.
strftime(c) == << "t", DigitStr[c + 1] >>


\* ----------------------------------------------------- DataFrame helpers
\* pd.DataFrame(columns=cols): no rows.
EmptyFrame(cols) == [columns |-> cols, rows |-> << >>]

\* DataFrame.copy()
copy(df) == [columns |-> df.columns, rows |-> df.rows]

\* DataFrame.reindex(columns=cols): labels not present are filled with NaN.
reindex(df, cols) ==
  [columns |-> cols,
   rows |-> [n \in DOMAIN df.rows |->
              [c \in Range(cols) |->
                 IF c \in DOMAIN df.rows[n] THEN df.rows[n][c] ELSE NaN]]]

\* df[cols]: column selection.
select(df, cols) ==
  [columns |-> cols,
   rows |-> [n \in DOMAIN df.rows |-> [c \in Range(cols) |-> df.rows[n][c]]]]

\* df.drop(columns=[c], errors='ignore')
drop_column(df, c) ==
  LET keep(x) == x # c
      cols == SelectSeq(df.columns, keep)
  IN  IF c \in Range(df.columns) THEN select(df, cols) ELSE df

\* df[c] = df[c].astype(str)
astype_str(df, c) ==
  [columns |-> df.columns,
   rows |-> [n \in DOMAIN df.rows |->
              [df.rows[n] EXCEPT ![c] = Str(py_str(@))]]]

\* Lexicographic order of key strings by character code.
CharOrder == << " ", ".", "0", "1", "2", "3", "N", "T", "a", "e", "n", "o" >>

CharRank(ch) == CHOOSE i \in DOMAIN CharOrder : CharOrder[i] = ch

RECURSIVE text_less(_, _)
text_less(a, b) ==
  IF b = << >> THEN FALSE
  ELSE IF a = << >> THEN TRUE
  ELSE IF Head(a) = Head(b) THEN text_less(Tail(a), Tail(b))
  ELSE CharRank(Head(a)) < CharRank(Head(b))

RECURSIVE sorted_keys(_)
sorted_keys(S) ==
  IF S = {} THEN << >>
  ELSE LET m == CHOOSE x \in S : \A y \in S \ {x} : text_less(x.str, y.str)
       IN  << m >> \o sorted_keys(S \ {m})

\* Row numbers of df whose key cell equals k, in ascending order.
RECURSIVE ascending(_)
ascending(S) ==
  IF S = {} THEN << >>
  ELSE LET m == CHOOSE x \in S : \A y \in S : x <= y
       IN  << m >> \o ascending(S \ {m})

rows_with_key(df, k) ==
  ascending({n \in DOMAIN df.rows : df.rows[n][key_column] = k})

RECURSIVE concat(_)
concat(ss) == IF ss = << >> THEN << >> ELSE Head(ss) \o concat(Tail(ss))

\* pd.merge(left, right, on=key_column, how='outer',
\*          suffixes=('_old', '_new'), indicator=True).
\* A merged column label is a pair <<name, suffix>>: only the non-key
\* columns present on both sides are suffixed, the others keep their name.
\* The result is ordered by key; a key present on both sides yields one row
\* per pair of matching rows.  Each merged row is [s, li, ri]: the row
\* series s, and the row numbers of the left and right rows it comes from
\* (0 for none).
merge_columns(left, right) ==
  LET lcols == Range(left.columns) \ {key_column}
      rcols == Range(right.columns) \ {key_column}
  IN  {<<key_column, "">>, <<"_merge", "">>}
        \cup {<<c, IF c \in rcols THEN "_old" ELSE "">> : c \in lcols}
        \cup {<<c, IF c \in lcols THEN "_new" ELSE "">> : c \in rcols}

merge_row(left, right, k, i, j) ==
  LET lcols == Range(left.columns) \ {key_column}
      rcols == Range(right.columns) \ {key_column}
      ind == IF j = 0 THEN "left_only"
             ELSE IF i = 0 THEN "right_only" ELSE "both"
  IN  [s |-> [cn \in merge_columns(left, right) |->
               IF cn = <<key_column, "">> THEN k
               ELSE IF cn = <<"_merge", "">> THEN Str(<< ind >>)
               ELSE IF cn[2] = "_old" \/ (cn[2] = "" /\ cn[1] \in lcols)
                 THEN (IF i = 0 THEN NaN ELSE left.rows[i][cn[1]])
               ELSE (IF j = 0 THEN NaN ELSE right.rows[j][cn[1]])],
       li |-> i, ri |-> j]

\* Variant of pd_merge: how='left', the keys of the right side only are
\* dropped.
pd_merge_left(left, right) ==
  LET lkeys == {left.rows[n][key_column] : n \in DOMAIN left.rows}
      keys == sorted_keys(lkeys)
      group(k) ==
        LET L == rows_with_key(left, k)
            R == rows_with_key(right, k)
        IN  IF R = << >>
              THEN [a \in DOMAIN L |-> merge_row(left, right, k, L[a], 0)]
            ELSE concat([a \in DOMAIN L |->
                   [b \in DOMAIN R |-> merge_row(left, right, k, L[a], R[b])]])
  IN  concat([x \in DOMAIN keys |-> group(keys[x])])

\* Variant of pd_merge: how='inner', only the keys of both sides are kept.
pd_merge_inner(left, right) ==
  LET lkeys == {left.rows[n][key_column] : n \in DOMAIN left.rows}
      rkeys == {right.rows[n][key_column] : n \in DOMAIN right.rows}
      keys == sorted_keys(lkeys \cap rkeys)
      group(k) ==
        LET L == rows_with_key(left, k)
            R == rows_with_key(right, k)
        IN  concat([a \in DOMAIN L |->
              [b \in DOMAIN R |-> merge_row(left, right, k, L[a], R[b])]])
  IN  concat([x \in DOMAIN keys |-> group(keys[x])])

pd_merge(left, right) ==
  LET lkeys == {left.rows[n][key_column] : n \in DOMAIN left.rows}
      rkeys == {right.rows[n][key_column] : n \in DOMAIN right.rows}
      keys == sorted_keys(lkeys \cup rkeys)
      group(k) ==
        LET L == rows_with_key(left, k)
            R == rows_with_key(right, k)
        IN  IF R = << >>
              THEN [a \in DOMAIN L |-> merge_row(left, right, k, L[a], 0)]
            ELSE IF L = << >>
              THEN [b \in DOMAIN R |-> merge_row(left, right, k, 0, R[b])]
            ELSE concat([a \in DOMAIN L |->
                   [b \in DOMAIN R |-> merge_row(left, right, k, L[a], R[b])]])
  IN  concat([x \in DOMAIN keys |-> group(keys[x])])

\* --------------------------------------------------------- process_data
\* Series.get(label): None when the label is absent.
row_get(s, cn) == IF cn \in DOMAIN s THEN s[cn] ELSE None

typed_null(col) == IF col \in date_cols_config THEN NaT ELSE None

\* Variant of alert_message: the prior status is named even when it is
\* already the sentinel.
alert_message_always_names(original_status_val, clock) ==
  << "System Alert (" >> \o strftime(clock)
    \o << "): Job not in last Excel import." >>
    \o (IF truthy(original_status_val)
        THEN << " Previous status: '" >> \o py_str(original_status_val)
               \o << "'. " >>
        ELSE << >>)
    \o << "Verify if closed (set Status to 'Closed') or if active (re-include in Excel & update status)." >>

\* The text of the alert line written on a job missing from the import.
alert_message(original_status_val, clock) ==
  << "System Alert (" >> \o strftime(clock)
    \o << "): Job not in last Excel import." >>
    \o (IF truthy(original_status_val)
           /\ original_status_val # Str(<< REVIEW_MISSING_STATUS >>)
        THEN << " Previous status: '" >> \o py_str(original_status_val)
               \o << "'. " >>
        ELSE << >>)
    \o << "Verify if closed (set Status to 'Closed') or if active (re-include in Excel & update status)." >>

\* Variant of right_only_row: the import's value is read under the
\* unsuffixed column name.
right_only_row_unsuffixed(s) ==
  [col \in Range(EXPECTED_COLUMNS) |->
     IF col = key_column THEN row_get(s, <<key_column, "">>)
     ELSE IF col = "Status" THEN Str(<< "New" >>)
     ELSE IF col = "Notes" THEN Str(<< >>)
     ELSE LET value_from_new_df == row_get(s, <<col, "">>)
          IN  IF notna(value_from_new_df) THEN value_from_new_df
              ELSE typed_null(col)]

\* Variant of right_only_row: the status of a new job is read from the
\* import, which never carries it into the merge.
right_only_row_status_from_import(s) ==
  [col \in Range(EXPECTED_COLUMNS) |->
     IF col = key_column THEN row_get(s, <<key_column, "">>)
     ELSE IF col = "Status" THEN row_get(s, <<col, "_new">>)
     ELSE IF col = "Notes" THEN Str(<< >>)
     ELSE LET value_from_new_df == row_get(s, <<col, "_new">>)
          IN  IF notna(value_from_new_df) THEN value_from_new_df
              ELSE typed_null(col)]

\* Variant of right_only_row: the notes of a new job are left null.
right_only_row_null_notes(s) ==
  [col \in Range(EXPECTED_COLUMNS) |->
     IF col = key_column THEN row_get(s, <<key_column, "">>)
     ELSE IF col = "Status" THEN Str(<< "New" >>)
     ELSE IF col = "Notes" THEN None
     ELSE LET value_from_new_df == row_get(s, <<col, "_new">>)
          IN  IF notna(value_from_new_df) THEN value_from_new_df
              ELSE typed_null(col)]

\* Variant of right_only_row: a new job gets no status, it is left to the
\* user to set one.
right_only_row_unset_status(s) ==
  [col \in Range(EXPECTED_COLUMNS) |->
     IF col = key_column THEN row_get(s, <<key_column, "">>)
     ELSE IF col = "Status" THEN None
     ELSE IF col = "Notes" THEN Str(<< >>)
     ELSE LET value_from_new_df == row_get(s, <<col, "_new">>)
          IN  IF notna(value_from_new_df) THEN value_from_new_df
              ELSE typed_null(col)]

\* merge_type == 'right_only': a job new in the import.
right_only_row(s) ==
  [col \in Range(EXPECTED_COLUMNS) |->
     IF col = key_column THEN row_get(s, <<key_column, "">>)
     ELSE IF col = "Status" THEN Str(<< "New" >>)
     ELSE IF col = "Notes" THEN Str(<< >>)
     ELSE LET value_from_new_df == row_get(s, <<col, "_new">>)
          IN  IF notna(value_from_new_df) THEN value_from_new_df
              ELSE typed_null(col)]

\* Variant of left_only_row: the persisted value is read under the '_old'
\* name only.
left_only_row_old_only(s, clock) ==
  LET kept ==
        [col \in Range(EXPECTED_COLUMNS) |->
           IF col = key_column THEN row_get(s, <<key_column, "">>)
           ELSE IF col \in {"Status", "Notes"} THEN row_get(s, <<col, "">>)
           ELSE LET val_from_row == row_get(s, <<col, "_old">>)
                IN  IF notna(val_from_row) THEN val_from_row
                    ELSE typed_null(col)]
      original_status_val == kept["Status"]
      existing_notes ==
        IF kept["Notes"] # None THEN py_str(kept["Notes"]) ELSE << >>
  IN  [kept EXCEPT
         !["Status"] = Str(<< REVIEW_MISSING_STATUS >>),
         !["Notes"] = Str(strip(alert_message(original_status_val, clock)
                                  \o << "\n", "-----", "\n" >>
                                  \o existing_notes))]

\* Variant of left_only_row: the alert is appended under the existing notes.
left_only_row_appends(s, clock) ==
  LET kept ==
        [col \in Range(EXPECTED_COLUMNS) |->
           IF col = key_column THEN row_get(s, <<key_column, "">>)
           ELSE LET val_from_row ==
                      IF <<col, "_old">> \in DOMAIN s
                      THEN row_get(s, <<col, "_old">>)
                      ELSE row_get(s, <<col, "">>)
                IN  IF notna(val_from_row) THEN val_from_row
                    ELSE typed_null(col)]
      original_status_val == kept["Status"]
      existing_notes ==
        IF kept["Notes"] # None THEN py_str(kept["Notes"]) ELSE << >>
  IN  [kept EXCEPT
         !["Status"] = Str(<< REVIEW_MISSING_STATUS >>),
         !["Notes"] = Str(strip(existing_notes \o << "\n", "-----", "\n" >>
                                  \o alert_message(original_status_val, clock)))]

\* merge_type == 'left_only': a job missing from the import.
left_only_row(s, clock) ==
  LET kept ==
        [col \in Range(EXPECTED_COLUMNS) |->
           IF col = key_column THEN row_get(s, <<key_column, "">>)
           ELSE LET val_from_row ==
                      IF <<col, "_old">> \in DOMAIN s
                      THEN row_get(s, <<col, "_old">>)
                      ELSE row_get(s, <<col, "">>)
                IN  IF notna(val_from_row) THEN val_from_row
                    ELSE typed_null(col)]
      original_status_val == kept["Status"]
      existing_notes ==
        IF kept["Notes"] # None THEN py_str(kept["Notes"]) ELSE << >>
  IN  [kept EXCEPT
         !["Status"] = Str(<< REVIEW_MISSING_STATUS >>),
         !["Notes"] = Str(strip(alert_message(original_status_val, clock)
                                  \o << "\n", "-----", "\n" >>
                                  \o existing_notes))]

\* Variant of both_row: a job marked missing that is in the import again
\* is taken for active, its status starts over at New.
both_row_reopened(s) ==
  [col \in Range(EXPECTED_COLUMNS) |->
     IF col = key_column THEN row_get(s, <<key_column, "">>)
     ELSE IF col \in {"Status", "Notes"}
       THEN LET val_status_notes == row_get(s, <<col, "">>)
            IN  IF col = "Status"
                     /\ val_status_notes = Str(<< REVIEW_MISSING_STATUS >>)
                  THEN Str(<< "New" >>)
                ELSE IF notna(val_status_notes) THEN val_status_notes
                ELSE IF col = "Notes" THEN Str(<< >>) ELSE Str(<< "New" >>)
     ELSE LET new_val == row_get(s, <<col, "_new">>)
              old_val == row_get(s, <<col, "_old">>)
          IN  IF notna(new_val) THEN new_val ELSE old_val]

\* Variant of both_row: the import's value is tested for truth, a zero
\* counts as no value.
both_row_zero_is_absent(s) ==
  [col \in Range(EXPECTED_COLUMNS) |->
     IF col = key_column THEN row_get(s, <<key_column, "">>)
     ELSE IF col \in {"Status", "Notes"}
       THEN LET val_status_notes == row_get(s, <<col, "">>)
            IN  IF notna(val_status_notes) THEN val_status_notes
                ELSE IF col = "Notes" THEN Str(<< >>) ELSE Str(<< "New" >>)
     ELSE LET new_val == row_get(s, <<col, "_new">>)
              old_val == row_get(s, <<col, "_old">>)
          IN  IF notna(new_val) /\ new_val # Num(0) THEN new_val ELSE old_val]

\* merge_type == 'both': a job of the table that is in the import again.
both_row(s) ==
  [col \in Range(EXPECTED_COLUMNS) |->
     IF col = key_column THEN row_get(s, <<key_column, "">>)
     ELSE IF col \in {"Status", "Notes"}
       THEN LET val_status_notes == row_get(s, <<col, "">>)
            IN  IF notna(val_status_notes) THEN val_status_notes
                ELSE IF col = "Notes" THEN Str(<< >>) ELSE Str(<< "New" >>)
     ELSE LET new_val == row_get(s, <<col, "_new">>)
              old_val == row_get(s, <<col, "_old">>)
          IN  IF notna(new_val) THEN new_val ELSE old_val]

\* The safeguard after the branches: a column the branch left out gets a
\* default.
safeguard(current_row_data) ==
  [col_check \in Range(EXPECTED_COLUMNS) |->
     IF col_check \in DOMAIN current_row_data
       THEN current_row_data[col_check]
     ELSE IF col_check \in date_cols_config THEN NaT
     ELSE IF col_check = "Status" THEN Str(<< "New" >>)
     ELSE IF col_check = "Notes" THEN Str(<< >>)
     ELSE None]

\* One pass of the loop over merged_df.iterrows().
process_row(s, clock) ==
  LET merge_type == row_get(s, <<"_merge", "">>)
  IN  safeguard(
        IF merge_type = Str(<< "right_only" >>) THEN right_only_row(s)
        ELSE IF merge_type = Str(<< "left_only" >>)
          THEN left_only_row(s, clock)
        ELSE IF merge_type = Str(<< "both" >>) THEN both_row(s)
        ELSE << >>)

\* pd.to_datetime(value, errors='coerce')
to_datetime(v) == IF "date" \in DOMAIN v THEN v ELSE NaT

\* Variant of cols_from_new: Status and Notes of the import are not
\* excluded.
cols_from_new_with_user_fields(new_df_sanitized) ==
  LET wanted(col_name) == col_name \in Range(new_df_sanitized.columns)
  IN  SelectSeq(EXPECTED_COLUMNS, wanted)

\* The columns of the import that take part in the merge: the expected
\* columns the import has, without Status and Notes.
cols_from_new(new_df_sanitized) ==
  LET wanted(col_name) ==
        col_name \in Range(new_df_sanitized.columns)
          /\ col_name \notin {"Status", "Notes"}
  IN  SelectSeq(EXPECTED_COLUMNS, wanted)

\* str(col).strip() and str(col).strip().replace('\n', '').replace('\r', '')
\* on the header names of this model.
stripped_name(col) == IF col = " Invoice # " THEN "Invoice #" ELSE col

sanitized_name(col) ==
  IF col = " Invoice # " THEN "Invoice #"
  ELSE IF col = "Bal\nance" THEN "Balance"
  ELSE col

\* The copy of the import with its column names sanitized: the names are
\* rewritten only when one of them is not already stripped.
sanitized(new_df_raw) ==
  LET new_df_sanitized == copy(new_df_raw)
      old == new_df_sanitized.columns
  IN  IF \A i \in DOMAIN old : old[i] = stripped_name(old[i])
        THEN new_df_sanitized
      ELSE LET named == [i \in DOMAIN old |-> sanitized_name(old[i])]
               first(c) == CHOOSE i \in DOMAIN old : named[i] = c
           IN  [columns |-> named,
                rows |-> [n \in DOMAIN new_df_sanitized.rows |->
                           [c \in Range(named) |->
                              new_df_sanitized.rows[n][old[first(c)]]]]]

\* The frame of the caller after process_data worked on it: the key column
\* is assigned its string form in the frame passed in, and a frame without
\* rows and without the key column is given one.
in_place_effect(current_status_df) ==
  IF key_column \in Range(current_status_df.columns)
    THEN astype_str(current_status_df, key_column)
  ELSE IF current_status_df.rows = << >>
    THEN [columns |-> Append(current_status_df.columns, key_column),
          rows |-> current_status_df.rows]
  ELSE current_status_df

\* The snapshot as process_data leaves it before the merge: key as string
\* (the caller's frame is changed in place by this assignment), '#' dropped.
prepared_status(current_status_df) ==
  drop_column(
    IF key_column \in Range(current_status_df.columns)
      THEN astype_str(current_status_df, key_column)
    ELSE [columns |-> Append(current_status_df.columns, key_column),
          rows |-> current_status_df.rows],
    "#")

\* The import as process_data prepares it for the merge.
new_data_for_merge(new_df_raw) ==
  LET new_df_sanitized ==
        drop_column(astype_str(sanitized(new_df_raw), key_column), "#")
  IN  select(new_df_sanitized, cols_from_new(new_df_sanitized))

merged_of(new_df_raw, current_status_df) ==
  pd_merge(prepared_status(current_status_df), new_data_for_merge(new_df_raw))

\* The frame process_data returns for a merged frame.
final_of(merged, clock) ==
  LET processed_rows == [n \in DOMAIN merged |-> process_row(merged[n].s, clock)]
      final_df ==
        reindex(IF processed_rows = << >> THEN EmptyFrame(EXPECTED_COLUMNS)
                ELSE [columns |-> EXPECTED_COLUMNS, rows |-> processed_rows],
                EXPECTED_COLUMNS)
  IN  [columns |-> final_df.columns,
       rows |-> [n \in DOMAIN final_df.rows |->
                  [col_final_cast \in Range(final_df.columns) |->
                     IF col_final_cast \in date_cols_config
                       THEN to_datetime(final_df.rows[n][col_final_cast])
                     ELSE IF col_final_cast = key_column
                       THEN Str(py_str(final_df.rows[n][col_final_cast]))
                     ELSE final_df.rows[n][col_final_cast]]]]

\* Variant of process_data: the key column is looked up among the names as
\* the caller passed them.
process_data_unsanitized_check(new_df_raw, current_status_df, clock) ==
  IF key_column \notin Range(new_df_raw.columns) THEN None
  ELSE final_of(merged_of(new_df_raw, current_status_df), clock)

\* process_data: None when the import has no key column after its names
\* are sanitized, the reconciled frame otherwise.  clock is the reading of
\* datetime.now() the function takes for the alerts.
process_data(new_df_raw, current_status_df, clock) ==
  IF key_column \notin Range(sanitized(new_df_raw).columns) THEN None
  ELSE final_of(merged_of(new_df_raw, current_status_df), clock)

\* ------------------------------------------------------- reporting_tab.py
\* pd.NA, the null of the derived columns.
NA == [null |-> "NA"]

\* Series.isin(values) on a text cell of one token.
isin(v, values) == "str" \in DOMAIN v /\ Len(v.str) = 1 /\ v.str[1] \in values

excluded_statuses == {"Closed", "Cancelled/Postponed", REVIEW_MISSING_STATUS}

early_statuses == {"New", "Waiting Measure", "Ready to order"}

stuck_threshold_days == 21

aging_threshold_days == 56

value_threshold == 10000

statuses_to_exclude_for_low_collection == {"New", "Waiting Measure"}

age_bins == << -1, 7, 21, 49, 56 >>

age_labels ==
  << "Job Age: 0-7 Days (First Week of Job Age)",
     "Job Age: 8-21 Days (Job is 2-3 Weeks Old)",
     "Job Age: 22-49 Days (Job is 4-7 Weeks Old)",
     "Job Age: 50-56 Days (Job is 8 Weeks Old)",
     "Job Age: Over 56 Days (Job is Older than 8 Weeks)" >>

\* The number a text of single characters spells: an optional sign, digits,
\* and an optional fraction of zeros.  A text that spells none is NaN.
Digits == {"0", "1", "2", "3", "4", "5", "6", "7", "8", "9"}

digit_value(ch) == (CHOOSE i \in DOMAIN DigitStr : DigitStr[i] = ch) - 1

RECURSIVE digits_value(_)
digits_value(t) ==
  IF t = << >> THEN 0
  ELSE 10 * digits_value(SubSeq(t, 1, Len(t) - 1)) + digit_value(t[Len(t)])

parse_number(t) ==
  LET negative == t # << >> /\ Head(t) = "-"
      unsigned == IF negative THEN Tail(t) ELSE t
      dot == IF \E p \in DOMAIN unsigned : unsigned[p] = "."
             THEN CHOOSE p \in DOMAIN unsigned : unsigned[p] = "."
             ELSE Len(unsigned) + 1
      whole == SubSeq(unsigned, 1, dot - 1)
      fraction == SubSeq(unsigned, dot + 1, Len(unsigned))
  IN  IF whole # << >> /\ Range(whole) \subseteq Digits
           /\ Range(fraction) \subseteq {"0"}
        THEN Num(IF negative THEN 0 - digits_value(whole)
                 ELSE digits_value(whole))
      ELSE NaN

\* pd.to_numeric(col.astype(str).replace({'\$': '', ',': ''}, regex=True),
\*               errors='coerce').fillna(0)
to_numeric_currency(v) ==
  LET keep(ch) == ch \notin {"$", ","}
      coerced == IF "num" \in DOMAIN v THEN v
                 ELSE IF "str" \in DOMAIN v
                   THEN parse_number(SelectSeq(v.str, keep))
                 ELSE NaN
  IN  IF notna(coerced) THEN coerced ELSE Num(0)

\* Variant of pd_cut: the bins are closed on the left, an age on a bin edge
\* falls into the older bucket.
pd_cut_left_closed(age) ==
  IF ~notna(age) THEN NA
  ELSE IF age.num < age_bins[1] THEN NA
  ELSE IF age.num < age_bins[2] THEN Str(<< age_labels[1] >>)
  ELSE IF age.num < age_bins[3] THEN Str(<< age_labels[2] >>)
  ELSE IF age.num < age_bins[4] THEN Str(<< age_labels[3] >>)
  ELSE IF age.num < age_bins[5] THEN Str(<< age_labels[4] >>)
  ELSE Str(<< age_labels[5] >>)

\* pd.cut(JobAge_days, bins=age_bins + [inf], labels=age_labels, right=True)
pd_cut(age) ==
  IF ~notna(age) THEN NA
  ELSE IF age.num <= age_bins[1] THEN NA
  ELSE IF age.num <= age_bins[2] THEN Str(<< age_labels[1] >>)
  ELSE IF age.num <= age_bins[3] THEN Str(<< age_labels[2] >>)
  ELSE IF age.num <= age_bins[4] THEN Str(<< age_labels[3] >>)
  ELSE IF age.num <= age_bins[5] THEN Str(<< age_labels[4] >>)
  ELSE Str(<< age_labels[5] >>)

\* Variant of job_age: a job turned in after today is given age zero.
job_age_not_negative(turn_in, today) ==
  IF notna(to_datetime(turn_in))
    THEN Num(IF today >= to_datetime(turn_in).date
               THEN today - to_datetime(turn_in).date
             ELSE 0)
  ELSE NA

\* Variant of job_age: a job without a turn-in date is given age zero.
job_age_zero_default(turn_in, today) ==
  IF notna(to_datetime(turn_in)) THEN Num(today - to_datetime(turn_in).date)
  ELSE Num(0)

\* JobAge_days: the whole days from the turn-in date to today, NA without
\* a valid turn-in date.
job_age(turn_in, today) ==
  IF notna(to_datetime(turn_in)) THEN Num(today - to_datetime(turn_in).date)
  ELSE NA

\* Variant of is_open: the sentinel status is not excluded.
is_open_with_sentinel(row) ==
  ~isin(row["Status"], {"Closed", "Cancelled/Postponed"})

\* A row of the table that passes the filter of the open jobs.
is_open(row) == ~isin(row["Status"], excluded_statuses)

\* A row of open_jobs_df: the row of the table and its derived columns.
with_derived(row, today) ==
  LET derived ==
        [Balance_numeric |-> to_numeric_currency(row["Balance"]),
         InvoiceTotal_numeric |-> to_numeric_currency(row["Invoice Total"]),
         TurnInDate_dt |-> to_datetime(row["Turn in Date"]),
         JobAge_days |-> job_age(row["Turn in Date"], today),
         Age_Bucket |-> pd_cut(job_age(row["Turn in Date"], today))]
  IN  [c \in DOMAIN row \cup DOMAIN derived |->
         IF c \in DOMAIN derived THEN derived[c] ELSE row[c]]

\* ReportingTab._prepare_open_jobs_data: None without a table, otherwise
\* the rows of the open jobs, in the order of the table.
derived_columns ==
  << "Balance_numeric", "InvoiceTotal_numeric", "TurnInDate_dt",
     "JobAge_days", "Age_Bucket" >>

prepare_open_jobs_data(df, today) ==
  IF df.rows = << >> THEN None
  ELSE LET open_jobs == SelectSeq(df.rows, is_open)
       IN  IF open_jobs = << >> THEN [columns |-> df.columns, rows |-> << >>]
           ELSE [columns |-> df.columns \o derived_columns,
                 rows |-> [n \in DOMAIN open_jobs |->
                            with_derived(open_jobs[n], today)]]

\* Series.sum() of a numeric column, and Series.value_counts() of a column:
\* the count of each value that is not null.
RECURSIVE column_sum(_, _)
column_sum(rows, col) ==
  IF rows = << >> THEN 0
  ELSE (IF notna(Head(rows)[col]) THEN Head(rows)[col].num ELSE 0)
         + column_sum(Tail(rows), col)

value_counts(rows, col) ==
  [v \in {rows[n][col] : n \in {m \in DOMAIN rows : notna(rows[m][col])}} |->
     Cardinality({n \in DOMAIN rows : rows[n][col] = v})]

\* Variant of financial_summary: the Balance column is read as the amount
\* collected.
financial_summary_balance_collected(rows) ==
  LET total_invoice == column_sum(rows, "InvoiceTotal_numeric")
      total_outstanding_balance == column_sum(rows, "Balance_numeric")
  IN  [total_invoice |-> total_invoice,
       total_outstanding_balance |-> total_invoice - total_outstanding_balance,
       total_collected_calculated |-> total_outstanding_balance]

\* The three sums of a financial summary.
financial_summary(rows) ==
  LET total_invoice == column_sum(rows, "InvoiceTotal_numeric")
      total_outstanding_balance == column_sum(rows, "Balance_numeric")
  IN  [total_invoice |-> total_invoice,
       total_outstanding_balance |-> total_outstanding_balance,
       total_collected_calculated |-> total_invoice - total_outstanding_balance]

\* Age_Bucket.value_counts().sort_index(): the count of each of the five
\* categories.
bucket_counts(rows) ==
  [b \in DOMAIN age_labels |->
     Cardinality({n \in DOMAIN rows :
                    rows[n]["Age_Bucket"] = Str(<< age_labels[b] >>)})]

\* A comparison of JobAge_days with a threshold: False on a null age.
age_over(row, days) == notna(row["JobAge_days"]) /\ row["JobAge_days"].num > days

\* Variant of stuck_jobs_df: an age equal to the threshold counts as stuck.
stuck_jobs_df_inclusive(rows) ==
  LET stuck(job) ==
        /\ isin(job["Status"], early_statuses)
        /\ notna(job["JobAge_days"])
        /\ job["JobAge_days"].num >= stuck_threshold_days
  IN  SelectSeq(rows, stuck)

stuck_jobs_df(rows) ==
  LET stuck(job) ==
        /\ isin(job["Status"], early_statuses)
        /\ age_over(job, stuck_threshold_days)
  IN  SelectSeq(rows, stuck)

\* Variant of hv_aging_df: an age and a balance equal to their thresholds
\* count.
hv_aging_df_inclusive(rows) ==
  LET hv(job) ==
        /\ notna(job["JobAge_days"])
        /\ job["JobAge_days"].num >= aging_threshold_days
        /\ job["Balance_numeric"].num >= value_threshold
  IN  SelectSeq(rows, hv)

hv_aging_df(rows) ==
  LET hv(job) ==
        /\ age_over(job, aging_threshold_days)
        /\ job["Balance_numeric"].num > value_threshold
  IN  SelectSeq(rows, hv)

\* groupby('Age_Bucket', observed=False).agg(...): a line for each of the
\* five categories.
financial_by_bucket(rows) ==
  [b \in DOMAIN age_labels |->
     LET in_bucket(job) == job["Age_Bucket"] = Str(<< age_labels[b] >>)
         group == SelectSeq(rows, in_bucket)
         data == [Total_Invoice_Value |-> column_sum(group, "InvoiceTotal_numeric"),
                  Total_Outstanding_Balance |-> column_sum(group, "Balance_numeric"),
                  Job_Count |-> Len(group)]
     IN  [Total_Invoice_Value |-> data.Total_Invoice_Value,
          Total_Outstanding_Balance |-> data.Total_Outstanding_Balance,
          Job_Count |-> data.Job_Count,
          calculated_collected |->
            data.Total_Invoice_Value - data.Total_Outstanding_Balance]]

\* Collected_Percentage_Actual, rounded down to a whole percent (the
\* comparison with 35 is not changed by the rounding); 0 for a zero total.
floor_div(a, b) == IF b > 0 THEN a \div b ELSE (0 - a) \div (0 - b)

\* Variant of collected_percentage: the percentage of a zero total is not
\* left at its initial 0.0, nothing owed of nothing counts as all
\* collected.
collected_percentage_of_nothing(job) ==
  LET total == job["InvoiceTotal_numeric"].num
      collected == total - job["Balance_numeric"].num
  IN  IF total # 0 THEN floor_div(collected * 100, total) ELSE 100

collected_percentage(job) ==
  LET total == job["InvoiceTotal_numeric"].num
      collected == total - job["Balance_numeric"].num
  IN  IF total # 0 THEN floor_div(collected * 100, total) ELSE 0

\* A row of df_for_low_collection_check: the open job and its two
\* collection columns.
with_collection(job) ==
  LET added ==
        [Collected_Amount_Calculated |->
           Num(job["InvoiceTotal_numeric"].num - job["Balance_numeric"].num),
         Collected_Percentage_Actual |-> Num(collected_percentage(job))]
  IN  [c \in DOMAIN job \cup DOMAIN added |->
         IF c \in DOMAIN added THEN added[c] ELSE job[c]]

\* Variant of low_collection_jobs_df: the three early statuses of the stuck
\* list are left out of the check.
low_collection_jobs_df_early(rows) ==
  LET checked(job) == ~isin(job["Status"], early_statuses)
      low(job) == job["Collected_Percentage_Actual"].num < 35
      df_for_low_collection_check == SelectSeq(rows, checked)
  IN  SelectSeq([n \in DOMAIN df_for_low_collection_check |->
                   with_collection(df_for_low_collection_check[n])], low)

low_collection_jobs_df(rows) ==
  LET checked(job) == ~isin(job["Status"], statuses_to_exclude_for_low_collection)
      low(job) == job["Collected_Percentage_Actual"].num < 35
      df_for_low_collection_check == SelectSeq(rows, checked)
  IN  SelectSeq([n \in DOMAIN df_for_low_collection_check |->
                   with_collection(df_for_low_collection_check[n])], low)

\* ReportingTab._populate_coordinator_tab for the open jobs of one
\* coordinator.
populate_coordinator_tab(rows) ==
  [count |-> Len(rows),
   status_counts_pc |-> value_counts(rows, "Status"),
   financial |-> financial_summary(rows),
   pc_bucket_counts |-> bucket_counts(rows),
   pc_total_job_days |-> column_sum(rows, "JobAge_days")]

\* ReportingTab.display_all_stats on the table df on the day today: what
\* the tab shows afterwards.
display_all_stats(df, today) ==
  LET open_jobs_df == prepare_open_jobs_data(df, today)
  IN  IF open_jobs_df = None
        THEN [today |-> today, open_jobs_df |-> None]
      ELSE LET rows == open_jobs_df.rows
               unique_coordinators ==
                 {rows[n]["Project Coordinator"] :
                    n \in {m \in DOMAIN rows :
                             notna(rows[m]["Project Coordinator"])}}
           IN  [today |-> today,
                open_jobs_df |-> open_jobs_df,
                num_total_jobs_loaded |-> Len(df.rows),
                num_open_jobs |-> Len(rows),
                open_status_counts |-> value_counts(rows, "Status"),
                financial |-> financial_summary(rows),
                bucket_counts |-> bucket_counts(rows),
                stuck_jobs_df |-> stuck_jobs_df(rows),
                hv_aging_df |-> hv_aging_df(rows),
                financial_by_bucket |-> financial_by_bucket(rows),
                low_collection_jobs_df |-> low_collection_jobs_df(rows),
                coordinators |->
                  [pc_name \in unique_coordinators |->
                     LET of_pc(job) == job["Project Coordinator"] = pc_name
                     IN  populate_coordinator_tab(SelectSeq(rows, of_pc))]]

\* ------------------------------------------------------------ the inputs
\* The Excel files offered to the import, as load_excel returns them: the
\* header is stripped, 'Invoice #' is among the columns, date columns hold
\* dates or NaT.  A row is described by its raw key, a value number v for
\* its cells and the set of its empty cells.
NameOf == << "A", "B", "C" >>

excel_cell(col, spec) ==
  IF col = key_column THEN spec.key
  ELSE IF col \in spec.nulls
    THEN (IF col \in date_cols_config THEN NaT ELSE NaN)
  ELSE IF col \in date_cols_config THEN Date(spec.v)
  ELSE IF col \in {"Invoice Total", "Balance", "#"} THEN Num(spec.v)
  ELSE IF col = "Status" THEN Str(<< "Closed" >>)
  ELSE IF col = "Notes" THEN Str(<< "from", " ", "feed" >>)
  ELSE Str(<< NameOf[spec.v + 1] >>)

excel_frame(cols, specs) ==
  [columns |-> cols,
   rows |-> [n \in DOMAIN specs |->
              [col \in Range(cols) |-> excel_cell(col, specs[n])]]]

\* Three rows: job 1, job 1 again with other values and empty cells, job 2.
row_a == [key |-> Num(1), v |-> 1, nulls |-> {}]

row_b == [key |-> Num(1), v |-> 2,
          nulls |-> {"Turn in Date", "Balance", "Account"}]

row_c == [key |-> Num(2), v |-> 0, nulls |-> {}]

\* Two headers: the full report, which also has a row counter and columns
\* named like the user-owned fields, and a report with few columns.
FullHeader ==
  << "#", "Invoice #", "Order Date", "Turn in Date", "Account",
     "Invoice Total", "Balance", "Salesperson", "Project Coordinator",
     "Status", "Notes" >>

ShortHeader == << "Invoice #", "Balance", "Order Date" >>

ExcelFiles ==
  { excel_frame(FullHeader, << >>),
    excel_frame(FullHeader, << row_a >>),
    excel_frame(FullHeader, << row_c >>),
    excel_frame(FullHeader, << row_b, row_c >>),
    excel_frame(FullHeader, << row_a, row_b >>),
    excel_frame(ShortHeader, << row_b >>),
    excel_frame(ShortHeader, << row_c >>),
    excel_frame(ShortHeader, << row_c, row_a >>) }

\* Frames handed to process_data by a direct caller.  raw_frame is a frame
\* whose header was not cleaned: its cells are those of the column the name
\* stands for.
raw_frame(cols, specs) ==
  [columns |-> cols,
   rows |-> [n \in DOMAIN specs |->
              [col \in Range(cols) |->
                 excel_cell(sanitized_name(col), specs[n])]]]

\* Job 1 again, its key typed as text with a leading blank; job 3 with a
\* balance that is no number and no dates.
row_d == [key |-> Str(<< " ", "1" >>), v |-> 1, nulls |-> {}]

MalformedFrame ==
  [columns |-> << "Invoice #", "Order Date", "Balance", "Colour" >>,
   rows |-> << [col \in {"Invoice #", "Order Date", "Balance", "Colour"} |->
                  IF col = "Invoice #" THEN Num(3)
                  ELSE IF col = "Order Date" THEN NaT
                  ELSE IF col = "Balance" THEN Str(<< "n/a" >>)
                  ELSE Str(<< "red" >>)] >>]

Batches ==
  { excel_frame(FullHeader, << >>),
    excel_frame(FullHeader, << row_b, row_c >>),
    excel_frame(FullHeader, << row_d >>),
    excel_frame(ShortHeader, << row_c, row_a >>),
    raw_frame(<< "Balance", "Order Date" >>, << row_a >>),
    raw_frame(<< "Balance", "Order Date" >>, << >>),
    raw_frame(<< " Invoice # ", "Bal\nance" >>, << row_a >>),
    raw_frame(<< "Invoice #", "Bal\nance" >>, << row_c >>),
    MalformedFrame }

\* A job table migrated from the pickle file of the first version of the
\* program, which kept the keys as the numbers Excel gave.
MigratedFrame ==
  [columns |-> EXPECTED_COLUMNS,
   rows |-> << [col \in Range(EXPECTED_COLUMNS) |->
                  IF col = key_column THEN Num(1)
                  ELSE IF col \in date_cols_config THEN Date(1)
                  ELSE IF col \in {"Invoice Total", "Balance"} THEN Num(1)
                  ELSE IF col = "Status" THEN Str(<< "In install" >>)
                  ELSE IF col = "Notes" THEN Str(<< "ok" >>)
                  ELSE Str(<< "A" >>)] >>]

\* What the notes editor's text widget may hold when Save is pressed.
NotesTyped == { << >>, << "call", " ", "back", " " >> }

\* A job table saved by an earlier session: job 1, set to Done by the user,
\* with a note, and job 3, as it was imported.
SavedFrame ==
  [columns |-> EXPECTED_COLUMNS,
   rows |-> << [col \in Range(EXPECTED_COLUMNS) |->
                  IF col = key_column THEN Str(<< "1" >>)
                  ELSE IF col \in date_cols_config THEN Date(1)
                  ELSE IF col \in {"Invoice Total", "Balance"} THEN Num(1)
                  ELSE IF col = "Status" THEN Str(<< "Done" >>)
                  ELSE IF col = "Notes" THEN Str(<< "ok" >>)
                  ELSE Str(<< "A" >>)],
               [col \in Range(EXPECTED_COLUMNS) |->
                  IF col = key_column THEN Str(<< "3" >>)
                  ELSE IF col \in date_cols_config THEN Date(0)
                  ELSE IF col \in {"Invoice Total", "Balance"} THEN Num(3)
                  ELSE IF col = "Status" THEN Str(<< "New" >>)
                  ELSE IF col = "Notes" THEN Str(<< >>)
                  ELSE Str(<< "C" >>)] >>]

Snapshots == {EmptyFrame(EXPECTED_COLUMNS), SavedFrame, MigratedFrame}

\* -------------------------------------------------------------- the state
\* The Treeview of the Data Management tab: its items in display order,
\* each with the index of its row of the table as tag and the cells it
\* shows.  The cells kept here are those shown as they are, the text
\* columns; an empty cell is shown as ''.
CURRENCY_COLUMNS == {"Invoice Total", "Balance"}

TextColumns == Range(EXPECTED_COLUMNS) \ (date_cols_config \cup CURRENCY_COLUMNS)

display_value(value) == IF notna(value) THEN value ELSE Str(<< >>)

\* DataManagementTab.populate_treeview: the items of before are deleted
\* and one item is inserted for each row of the table, in its order.
populate_treeview(df) ==
  [n \in DOMAIN df.rows |->
     [tags |-> n - 1,
      values |-> [col_name \in TextColumns |-> display_value(df.rows[n][col_name])]]]

\* The statuses in the order of their lower-case spelling.
StatusOrder ==
  << "Cancelled/Postponed", "Closed", "Done", "In install", "New", "Permit",
     "Ready to dispatch", "Ready to order", "Review - Missing from Report",
     "Waiting Measure", "Waiting for materials" >>

\* sort_key(sort_value) for the value of a text column: a text that
\* float() reads sorts as a number, before every other text; the other
\* texts sort by their lower-case spelling; an empty cell sorts before both.
sort_key(original_value) ==
  IF ~notna(original_value) THEN << 1, 0 >>
  ELSE IF "str" \in DOMAIN original_value /\ notna(parse_number(original_value.str))
    THEN << 2, parse_number(original_value.str).num >>
  ELSE IF /\ "str" \in DOMAIN original_value
          /\ Len(original_value.str) = 1
          /\ original_value.str[1] \in Range(StatusOrder)
    THEN << 3, CHOOSE r \in DOMAIN StatusOrder :
                 StatusOrder[r] = original_value.str[1] >>
  ELSE << 3, 0 >>

key_before(a, b, reverse) ==
  IF reverse THEN b[1] < a[1] \/ (b[1] = a[1] /\ b[2] < a[2])
  ELSE a[1] < b[1] \/ (a[1] = b[1] /\ a[2] < b[2])

\* DataManagementTab.sort_treeview_column: the items moved into the order
\* of the values their rows have in the column; list.sort is stable, also
\* with reverse=True.
sort_treeview_column(items, df, col, reverse) ==
  LET key_of(i) == sort_key(df.rows[items[i].tags + 1][col])
      place(i) ==
        1 + Cardinality({j \in DOMAIN items :
                           \/ key_before(key_of(j), key_of(i), reverse)
                           \/ (key_of(j) = key_of(i) /\ j < i)})
  IN  [index \in DOMAIN items |->
         items[CHOOSE i \in DOMAIN items : place(i) = index]]

VARIABLES
  status_df,          \* OpenJobsApp.status_df
  now,                \* the wall clock, in minutes
  new_df_raw,         \* the import handed to the last process_data call
  current_status_df,  \* the snapshot handed to the last process_data call
  merged_df,          \* merged_df of the last process_data call
  last_op,            \* the operation that produced this state
  rerun,              \* the last two operations imported the same file
  steps,              \* number of imports, edits and deletions so far
  hist,               \* per row of status_df: its current run of imports
                      \* it was missing from (history variable)
  args,               \* the two frames the caller of process_data holds
                      \* for it, as the last call left them
  report,             \* what the Reporting tab shows: None until its
                      \* statistics were refreshed
  tree                \* the items of the Data Management tab's Treeview

vars == << status_df, now, new_df_raw, current_status_df, merged_df,
           last_op, rerun, steps, hist, args, report, tree >>

\* The history of a row that is not in a run of missing imports, and of a
\* row found missing by the import at minute clock.  miss counts the
\* consecutive imports the row was missing from, base and prior are its
\* notes and status before the first of them, stamps the minutes of these
\* imports, oldest first.
no_run == [miss |-> 0, base |-> None, prior |-> None, stamps |-> << >>]

missing_again(h, persisted_row, clock) ==
  IF h.miss = 0
  THEN [miss |-> 1, base |-> persisted_row["Notes"],
        prior |-> persisted_row["Status"], stamps |-> << clock >>]
  ELSE [h EXCEPT !.miss = @ + 1, !.stamps = Append(@, clock)]

hist_after_import(merged, snapshot, clock) ==
  [n \in DOMAIN merged |->
     IF merged[n].ri = 0
     THEN missing_again(hist[merged[n].li], snapshot.rows[merged[n].li], clock)
     ELSE no_run]

\* load_status: no table yet, or the table of an earlier session.
load_status == {EmptyFrame(EXPECTED_COLUMNS), SavedFrame}

\* OpenJobsApp.__init__ / load_initial_data
Init ==
  /\ status_df \in {reindex(df, EXPECTED_COLUMNS) : df \in load_status}
  /\ now = 0
  /\ new_df_raw = EmptyFrame(<< key_column >>)
  /\ current_status_df = EmptyFrame(EXPECTED_COLUMNS)
  /\ merged_df = << >>
  /\ last_op = "init"
  /\ rerun = FALSE
  /\ steps = 0
  /\ hist = [n \in DOMAIN status_df.rows |-> no_run]
  /\ args = [new_df_raw |-> new_df_raw, current_status_df |-> current_status_df]
  /\ report = None
  /\ tree = populate_treeview(status_df)

\* The call processed_df = process_data(batch, snapshot) at the minute clock
\* and what its caller does with the outcome: on None the table stays as it
\* is, otherwise it becomes the returned frame, reindexed.  The frames
\* passed are left to the caller as the call changed them.
call_process_data(batch, snapshot, clock) ==
  LET processed_df == process_data(batch, snapshot, clock)
  IN  /\ new_df_raw' = batch
      /\ current_status_df' = snapshot
      /\ IF processed_df = None
           THEN /\ status_df' = status_df
                /\ merged_df' = << >>
                /\ args' = [new_df_raw |-> batch, current_status_df |-> snapshot]
                /\ last_op' = "failed"
           ELSE /\ status_df' = reindex(processed_df, EXPECTED_COLUMNS)
                /\ merged_df' = merged_of(batch, snapshot)
                /\ args' = [new_df_raw |-> batch,
                            current_status_df |-> in_place_effect(snapshot)]
                /\ last_op' = "import"

\* OpenJobsApp.load_new_excel_data with the file load_excel returned, at the
\* minute clock (datetime.now() as process_data reads it).
load_new_excel_data(file, clock) ==
  /\ steps < MaxSteps
  /\ now' = clock
  /\ call_process_data(file, copy(status_df), clock)
  /\ hist' = IF last_op' = "import"
               THEN hist_after_import(merged_df', current_status_df', clock)
             ELSE hist
  /\ rerun' = (last_op = "import" /\ new_df_raw = file)
  /\ steps' = steps + 1
  /\ tree' = IF last_op' = "import" THEN populate_treeview(status_df') ELSE tree
  /\ UNCHANGED report

\* OpenJobsApp.perform_data_update
perform_data_update(df, df_row_index, column_name, new_value) ==
  [columns |-> df.columns,
   rows |-> [df.rows EXCEPT ![df_row_index + 1][column_name] = new_value]]

\* The index of a frame: 0 .. len - 1.
index_of(df) == 0 .. (Len(df.rows) - 1)

\* DataManagementTab._save_edited_data: the table is updated at the index
\* the item carries as tag, and the cell of the item is rewritten in place.
_save_edited_data(item_id, df_row_index, column_name, new_value) ==
  /\ status_df' = perform_data_update(status_df, df_row_index, column_name,
                                      new_value)
  /\ tree' = [tree EXCEPT ![item_id].values[column_name] =
                           display_value(new_value)]
  /\ hist' = [hist EXCEPT ![df_row_index + 1] = no_run]

\* Variant of save_status_edit: the row is taken to be the one at the
\* place the item has in the view.
save_status_edit_by_position(item_id, picked) ==
  /\ steps < MaxSteps
  /\ (item_id - 1) \in index_of(status_df)
  /\ _save_edited_data(item_id, item_id - 1, "Status", Str(<< picked >>))
  /\ last_op' = "edit_status"
  /\ rerun' = FALSE
  /\ steps' = steps + 1
  /\ UNCHANGED << now, new_df_raw, current_status_df, merged_df, args, report >>

\* The status editor, opened by a double click on the item: Save with a
\* status picked in the combobox.
save_status_edit(item_id, picked) ==
  /\ steps < MaxSteps
  /\ tree[item_id].tags \in index_of(status_df)
  /\ _save_edited_data(item_id, tree[item_id].tags, "Status", Str(<< picked >>))
  /\ last_op' = "edit_status"
  /\ rerun' = FALSE
  /\ steps' = steps + 1
  /\ UNCHANGED << now, new_df_raw, current_status_df, merged_df, args, report >>

\* The notes editor: Save with the text of the widget, which ends in the
\* newline the Text widget appends.
save_notes_edit(item_id, typed) ==
  /\ steps < MaxSteps
  /\ tree[item_id].tags \in index_of(status_df)
  /\ _save_edited_data(item_id, tree[item_id].tags, "Notes",
                       Str(strip(typed \o << "\n" >>)))
  /\ last_op' = "edit_notes"
  /\ rerun' = FALSE
  /\ steps' = steps + 1
  /\ UNCHANGED << now, new_df_raw, current_status_df, merged_df, args, report >>

\* OpenJobsApp.perform_delete_rows
perform_delete_rows(df, df_indices_to_delete) ==
  LET valid_indices == {idx \in df_indices_to_delete : idx \in index_of(df)}
      keep == ascending({n \in DOMAIN df.rows : (n - 1) \notin valid_indices})
  IN  [columns |-> df.columns,
       rows |-> [a \in DOMAIN keep |-> df.rows[keep[a]]]]

\* DataManagementTab.handle_delete_key on the selected items: the rows at
\* the tags of the items are deleted and the view is populated again.
handle_delete_key(selected_tree_items) ==
  LET df_indices_to_delete == {tree[i].tags : i \in selected_tree_items} IN
  /\ steps < MaxSteps
  /\ selected_tree_items # {}
  /\ status_df' = perform_delete_rows(status_df, df_indices_to_delete)
  /\ tree' = populate_treeview(status_df')
  /\ hist' = LET keep == ascending({n \in DOMAIN hist :
                                     (n - 1) \notin df_indices_to_delete})
             IN  [a \in DOMAIN keep |-> hist[keep[a]]]
  /\ last_op' = "delete"
  /\ rerun' = FALSE
  /\ steps' = steps + 1
  /\ UNCHANGED << now, new_df_raw, current_status_df, merged_df, args, report >>

Import ==
  \E file \in ExcelFiles, clock \in now .. MaxClock :
    load_new_excel_data(file, clock)

EditStatus ==
  \E item_id \in DOMAIN tree, picked \in Range(ALLOWED_STATUS) :
    save_status_edit(item_id, picked)

EditNotes ==
  \E item_id \in DOMAIN tree, typed \in NotesTyped :
    save_notes_edit(item_id, typed)

DeleteRows ==
  \E selected_tree_items \in SUBSET DOMAIN tree :
    handle_delete_key(selected_tree_items)

\* A click on the heading of a column: the first click sorts ascending,
\* the next one descending, and so on.
SortColumn ==
  \E col \in {key_column, "Status"}, reverse \in BOOLEAN :
    /\ steps < MaxSteps
    /\ Len(tree) > 0
    /\ tree' = sort_treeview_column(tree, status_df, col, reverse)
    /\ last_op' = "sort"
    /\ rerun' = FALSE
    /\ steps' = steps + 1
    /\ UNCHANGED << status_df, now, new_df_raw, current_status_df, merged_df,
                    hist, args, report >>

Next == Import \/ EditStatus \/ EditNotes \/ DeleteRows

Spec == Init /\ [][Next]_vars

\* ------------------------------------------- process_data called directly
\* A caller that holds a batch and a snapshot, calls process_data on them,
\* possibly again later, and may take the result as its next snapshot.
EngineInit ==
  /\ args \in [new_df_raw : Batches, current_status_df : Snapshots]
  /\ status_df = args.current_status_df
  /\ now = 0
  /\ new_df_raw = EmptyFrame(<< key_column >>)
  /\ current_status_df = EmptyFrame(EXPECTED_COLUMNS)
  /\ merged_df = << >>
  /\ last_op = "init"
  /\ rerun = FALSE
  /\ steps = 0
  /\ hist = << >>
  /\ report = None
  /\ tree = << >>

\* processed_df = process_data(args.new_df_raw, args.current_status_df) at
\* the minute clock.  rerun: this call and the one before were given equal
\* frames.
Reconcile ==
  \E clock \in now .. MaxClock :
    /\ steps < MaxSteps
    /\ now' = clock
    /\ call_process_data(args.new_df_raw, args.current_status_df, clock)
    /\ rerun' = (/\ last_op \in {"import", "failed"}
                 /\ new_df_raw = args.new_df_raw
                 /\ current_status_df = args.current_status_df)
    /\ steps' = steps + 1
    /\ UNCHANGED << hist, report, tree >>

\* The caller keeps the returned frame as its snapshot and gets a new batch.
TakeResult ==
  \E batch \in Batches :
    /\ steps < MaxSteps
    /\ last_op = "import"
    /\ args' = [new_df_raw |-> batch, current_status_df |-> copy(status_df)]
    /\ last_op' = "take"
    /\ rerun' = FALSE
    /\ steps' = steps + 1
    /\ UNCHANGED << status_df, now, new_df_raw, current_status_df, merged_df,
                    hist, report, tree >>

EngineNext == Reconcile \/ TakeResult

EngineSpec == EngineInit /\ [][EngineNext]_vars

\* ================================================================ claims
\* Vocabulary of the claims.  The keys are compared as process_data
\* normalizes them (astype(str)); a record's disposition is read off the
\* key sets, its persisted and incoming rows off the merged row it was
\* built from.
SourceFields == Range(EXPECTED_COLUMNS) \ {key_column, "Status", "Notes"}

normalized(v) == Str(py_str(v))

\* The import as process_data reads it, under its sanitized column names.
incoming == sanitized(new_df_raw)

keys_incoming ==
  {normalized(incoming.rows[n][key_column]) : n \in DOMAIN incoming.rows}

keys_persisted ==
  {normalized(current_status_df.rows[n][key_column]) :
     n \in DOMAIN current_status_df.rows}

merge_type_of(n) == merged_df[n].s[<<"_merge", "">>].str[1]

keys_of_type(t) ==
  {merged_df[n].s[<<key_column, "">>] :
     n \in {m \in DOMAIN merged_df : merge_type_of(m) = t}}

new_keys == keys_of_type("right_only")

continuing_keys == keys_of_type("both")

missing_keys == keys_of_type("left_only")

after_import == last_op = "import"

\* Output rows (of the import that produced this state) by disposition.
out_key(n) == status_df.rows[n][key_column]

NewRows ==
  {n \in DOMAIN status_df.rows : out_key(n) \in keys_incoming \ keys_persisted}

ContinuingRows ==
  {n \in DOMAIN status_df.rows : out_key(n) \in keys_incoming \cap keys_persisted}

MissingRows ==
  {n \in DOMAIN status_df.rows : out_key(n) \in keys_persisted \ keys_incoming}

persisted_of(n) == current_status_df.rows[merged_df[n].li]

incoming_of(n) == incoming.rows[merged_df[n].ri]

\* The import has a value for the field of output row n.
incoming_has(n, col) ==
  col \in Range(incoming.columns) /\ notna(incoming_of(n)[col])

same_value(a, b) == a = b \/ (~notna(a) /\ ~notna(b))

text_of(v) == IF notna(v) THEN py_str(v) ELSE << >>

\* C1: after an import, the keys classified New, Continuing and Missing are
\* the keys in the import only, in both, and in the snapshot only; the three
\* sets are pairwise disjoint and their union is keys_incoming \cup
\* keys_persisted.
C1_Partition ==
  /\ new_keys = keys_incoming \ keys_persisted
  /\ continuing_keys = keys_incoming \cap keys_persisted
  /\ missing_keys = keys_persisted \ keys_incoming
  /\ new_keys \cap continuing_keys = {}
  /\ new_keys \cap missing_keys = {}
  /\ continuing_keys \cap missing_keys = {}
  /\ new_keys \cup continuing_keys \cup missing_keys
       = keys_incoming \cup keys_persisted

C1_Witness ==
  /\ after_import
  /\ new_keys # {}
  /\ continuing_keys # {}
  /\ missing_keys # {}

\* C2: the reconciled set has exactly one record per key of keys_incoming
\* \cup keys_persisted: its length is |new_keys| + |continuing_keys| +
\* |missing_keys| and no key appears in two records.
C2_OneRecordPerKey ==
  after_import =>
    /\ Len(status_df.rows)
         = Cardinality(new_keys) + Cardinality(continuing_keys)
             + Cardinality(missing_keys)
    /\ \A m, n \in DOMAIN status_df.rows : m # n => out_key(m) # out_key(n)
    /\ {out_key(n) : n \in DOMAIN status_df.rows}
         = keys_incoming \cup keys_persisted

\* C3: a Continuing record keeps the persisted status and notes (the
\* defaults "New" and "" only for a null persisted value), whatever the
\* import carries in its own Status and Notes columns.
C3_UserFieldsKept ==
  after_import =>
    \A n \in ContinuingRows :
      /\ merged_df[n].li # 0
      /\ status_df.rows[n]["Status"]
           = (IF notna(persisted_of(n)["Status"])
              THEN persisted_of(n)["Status"] ELSE Str(<< "New" >>))
      /\ status_df.rows[n]["Notes"]
           = (IF notna(persisted_of(n)["Notes"])
              THEN persisted_of(n)["Notes"] ELSE Str(<< >>))

C3_Witness ==
  /\ after_import
  /\ \E n \in ContinuingRows :
       /\ {"Status", "Notes"} \subseteq Range(new_df_raw.columns)
       /\ persisted_of(n)["Status"] = Str(<< "Done" >>)
       /\ incoming_of(n)["Status"] = Str(<< "Closed" >>)
       /\ incoming_of(n)["Notes"] # persisted_of(n)["Notes"]
       /\ status_df.rows[n]["Status"] = Str(<< "Done" >>)

\* C4: for a Continuing record each source-owned field is the incoming
\* value when the import has a non-null value for it, and the persisted
\* value otherwise, also when the import lacks the column.
C4_ContinuingSourceFields ==
  after_import =>
    \A n \in ContinuingRows : \A col \in SourceFields :
      same_value(status_df.rows[n][col],
                 IF incoming_has(n, col) THEN incoming_of(n)[col]
                 ELSE persisted_of(n)[col])

\* C5: importing the same file again on the result of its first import
\* leaves the status and notes of every Continuing record as they were in
\* the first result.
C5_RerunKeepsUserFields ==
  rerun =>
    \A n \in ContinuingRows :
      /\ status_df.rows[n]["Status"] = persisted_of(n)["Status"]
      /\ status_df.rows[n]["Notes"] = persisted_of(n)["Notes"]

C5_Witness ==
  /\ rerun
  /\ now > 0
  /\ \E n \in ContinuingRows :
       /\ status_df.rows[n]["Status"] = Str(<< "New" >>)
       /\ persisted_of(n)["Notes"] = Str(<< >>)
  /\ \E n \in ContinuingRows : status_df.rows[n]["Status"] = Str(<< "Done" >>)

\* C6: every Missing record is kept, with each source-owned field at its
\* persisted value and status REVIEW_MISSING_STATUS, whatever its status
\* was.
C6_MissingKept ==
  after_import =>
    /\ \A i \in DOMAIN current_status_df.rows :
         current_status_df.rows[i][key_column] \notin keys_incoming
           => \E n \in MissingRows : merged_df[n].li = i
    /\ \A n \in MissingRows :
         /\ merged_df[n].li # 0
         /\ status_df.rows[n]["Status"] = Str(<< REVIEW_MISSING_STATUS >>)
         /\ \A col \in SourceFields :
              same_value(status_df.rows[n][col], persisted_of(n)[col])

C6_Witness ==
  /\ after_import
  /\ \E n \in MissingRows :
       /\ persisted_of(n)["Status"] = Str(<< "Done" >>)
       /\ persisted_of(n)["Account"] = Str(<< "A" >>)
       /\ "Account" \notin Range(new_df_raw.columns)
  /\ \E n \in MissingRows :
       persisted_of(n)["Status"] = Str(<< REVIEW_MISSING_STATUS >>)

\* Texts: the position of the first newline of a text (its length + 1 if
\* none), and whether text a occurs in text t as a contiguous part.
first_newline(t) ==
  IF \E p \in DOMAIN t : t[p] = "\n"
  THEN CHOOSE p \in DOMAIN t : t[p] = "\n" /\ \A q \in 1..(p - 1) : t[q] # "\n"
  ELSE Len(t) + 1

occurs_in(a, t) ==
  \E p \in 0..(Len(t) - Len(a)) : SubSeq(t, p + 1, p + Len(a)) = a

has_prefix(t, a) == Len(a) <= Len(t) /\ SubSeq(t, 1, Len(a)) = a

has_suffix(t, a) ==
  Len(a) <= Len(t) /\ SubSeq(t, Len(t) - Len(a) + 1, Len(t)) = a

previous_status_clause(status) ==
  << " Previous status: '" >> \o text_of(status) \o << "'. " >>

operator_instruction ==
  << "Verify if closed (set Status to 'Closed') or if active (re-include in Excel & update status)." >>

\* C7: the notes of a Missing record are one alert line stamped with the
\* time of the import, naming the prior status iff it was not already the
\* sentinel, ending in the operator instruction; then the line "-----";
\* then the prior notes, unmodified, as the rest of the text.
C7_MissingNotes ==
  after_import =>
    \A n \in MissingRows :
      LET notes == status_df.rows[n]["Notes"].str
          prior_status == persisted_of(n)["Status"]
          prior_notes == text_of(persisted_of(n)["Notes"])
          line == SubSeq(notes, 1, first_newline(notes) - 1)
          rest == SubSeq(notes, first_newline(notes), Len(notes))
      IN  /\ has_prefix(line, << "System Alert (" >> \o strftime(now)
                                 \o << "): Job not in last Excel import." >>)
          /\ has_suffix(line, operator_instruction)
          /\ occurs_in(<< " Previous status: '" >>, line)
               <=> prior_status # Str(<< REVIEW_MISSING_STATUS >>)
          /\ prior_status # Str(<< REVIEW_MISSING_STATUS >>)
               => occurs_in(previous_status_clause(prior_status), line)
          /\ rest = << "\n", "-----" >>
                      \o (IF prior_notes = << >> THEN << >>
                          ELSE << "\n" >> \o prior_notes)

C7_Witness ==
  /\ after_import
  /\ \E n \in MissingRows :
       /\ persisted_of(n)["Status"] = Str(<< "Done" >>)
       /\ persisted_of(n)["Notes"] = Str(<< "ok" >>)
       /\ occurs_in(<< "Done" >>, status_df.rows[n]["Notes"].str)
       /\ has_suffix(status_df.rows[n]["Notes"].str,
                     << "\n", "-----", "\n", "ok" >>)
  /\ \E n \in MissingRows :
       /\ persisted_of(n)["Status"] = Str(<< REVIEW_MISSING_STATUS >>)
       /\ ~occurs_in(<< " Previous status: '" >>, status_df.rows[n]["Notes"].str)

\* The positions of the alert lines of a text, top down.
alert_positions(t) == ascending({p \in DOMAIN t : t[p] = "System Alert ("})

\* C8: a record missing from k >= 2 imports in a row has k alert blocks on
\* top of its notes, newest first, each followed by a separator line, and
\* under the oldest of them the notes it had before the first of these
\* imports.
C8_AlertsNewestFirst ==
  \A n \in DOMAIN status_df.rows :
    hist[n].miss >= 2 =>
      LET notes == status_df.rows[n]["Notes"].str
          k == hist[n].miss
          base == text_of(hist[n].base)
          A == alert_positions(notes)
          under == Len(notes) - Len(base) + 1
          end_of(j) == IF j < k THEN A[j + 1] ELSE under
      IN  /\ Len(A) = k + Len(alert_positions(base))
          /\ A[1] = 1
          /\ has_suffix(notes, base)
          /\ \A j \in 1..k :
               /\ SubSeq(notes, A[j] + 1, A[j] + Len(strftime(0)))
                    = strftime(hist[n].stamps[k + 1 - j])
               /\ A[j] < under
               /\ \E q \in (A[j] + 1)..(end_of(j) - 1) : notes[q] = "-----"

C8_Witness ==
  \E n \in DOMAIN status_df.rows :
    /\ hist[n].miss >= 2
    /\ hist[n].base = Str(<< "ok" >>)
    /\ hist[n].stamps[1] < hist[n].stamps[2]

\* C9: a New record takes each source-owned field from the import, or a
\* typed null (NaT for a date field, null otherwise) when the import has no
\* value for it; its status is "New" and its notes are empty.
C9_NewRecord ==
  after_import =>
    \A n \in NewRows :
      /\ merged_df[n].ri # 0
      /\ status_df.rows[n]["Status"] = Str(<< "New" >>)
      /\ status_df.rows[n]["Notes"] = Str(<< >>)
      /\ \A col \in SourceFields :
           IF incoming_has(n, col)
             THEN status_df.rows[n][col] = incoming_of(n)[col]
           ELSE IF col \in date_cols_config
             THEN status_df.rows[n][col] = NaT
           ELSE ~notna(status_df.rows[n][col])

C9_Witness ==
  /\ after_import
  /\ \E n \in NewRows :
       /\ "Account" \notin Range(new_df_raw.columns)
       /\ incoming_of(n)["Balance"] = NaN
       /\ status_df.rows[n]["Order Date"] = Date(2)
       /\ status_df.rows[n]["Turn in Date"] = NaT
       /\ ~notna(status_df.rows[n]["Balance"])
       /\ ~notna(status_df.rows[n]["Account"])

\* C10: every record of a reconciled set has the ten canonical fields, in
\* the canonical order, and neither its status nor its notes is null.
C10_CanonicalRecords ==
  after_import =>
    /\ status_df.columns = EXPECTED_COLUMNS
    /\ Len(status_df.columns) = 10
    /\ \A n \in DOMAIN status_df.rows :
         /\ DOMAIN status_df.rows[n] = Range(EXPECTED_COLUMNS)
         /\ notna(status_df.rows[n]["Status"])
         /\ notna(status_df.rows[n]["Notes"])
         /\ "str" \in DOMAIN status_df.rows[n]["Status"]
         /\ "str" \in DOMAIN status_df.rows[n]["Notes"]

C10_Witness ==
  /\ after_import
  /\ NewRows # {}
  /\ MissingRows # {}
  /\ ContinuingRows # {}
  /\ \E n \in ContinuingRows : "Account" \notin Range(new_df_raw.columns)

\* ------------------------------------------------- the Reporting tab
\* Job tables for the statistics.  Job 1 is turned in on day 2 and takes
\* every status and each of a few pairs of amounts; job 2 has no turn-in
\* date; job 3, turned in on day 1, has its balance as a text.
MoneyPairs ==
  { [balance |-> Num(100), total |-> Num(1000)],
    [balance |-> Num(0), total |-> Num(1000)],
    [balance |-> Num(10000), total |-> Num(20000)],
    [balance |-> Num(10001), total |-> Num(20000)],
    [balance |-> Str(<< "n", "/", "a" >>), total |-> None],
    [balance |-> Num(5), total |-> Num(0)],
    [balance |-> Num(650), total |-> Num(1000)],
    [balance |-> Num(651), total |-> Num(1000)],
    [balance |-> Num(0 - 50), total |-> Num(1000)] }

job_row(key, turn_in, account, amounts, coordinator, status) ==
  [col \in Range(EXPECTED_COLUMNS) |->
     IF col = key_column THEN key
     ELSE IF col = "Order Date" THEN Date(0)
     ELSE IF col = "Turn in Date" THEN turn_in
     ELSE IF col = "Invoice Total" THEN amounts.total
     ELSE IF col = "Balance" THEN amounts.balance
     ELSE IF col = "Project Coordinator" THEN coordinator
     ELSE IF col = "Status" THEN status
     ELSE IF col = "Notes" THEN Str(<< >>)
     ELSE account]

job_2 ==
  job_row(Str(<< "2" >>), NaT, Str(<< "B" >>),
          [balance |-> Num(20000), total |-> Num(30000)],
          Str(<< "B" >>), Str(<< "New" >>))

job_3 ==
  job_row(Str(<< "3" >>), Date(1), Str(<< "C" >>),
          [balance |-> Str(<< "$", "1", "2", ",", "0", "0", "0", ".", "0", "0" >>),
           total |-> Num(20000)],
          NaN, Str(<< "Ready to order" >>))

ReportTables ==
  { [columns |-> EXPECTED_COLUMNS,
     rows |-> << job_row(Str(<< "1" >>), Date(2), Str(<< "A" >>), amounts,
                         Str(<< "A" >>), Str(<< status >>)),
                 job_2, job_3 >>] :
      amounts \in MoneyPairs, status \in Range(ALLOWED_STATUS) }

\* The reports imported here: jobs 1 and 3 again, job 1 paid in full, and a
\* report without rows.
ReportColumns ==
  << "Invoice #", "Order Date", "Turn in Date", "Account", "Invoice Total",
     "Balance", "Salesperson", "Project Coordinator" >>

ReportFiles ==
  { select([columns |-> EXPECTED_COLUMNS,
            rows |-> << job_row(Num(1), Date(2), Str(<< "A" >>),
                                [balance |-> Num(0), total |-> Num(1000)],
                                Str(<< "A" >>), None),
                        [job_3 EXCEPT ![key_column] = Num(3)] >>],
           ReportColumns),
    EmptyFrame(ReportColumns) }

ReportInit ==
  /\ status_df \in ReportTables
  /\ now = 0
  /\ new_df_raw = EmptyFrame(<< key_column >>)
  /\ current_status_df = EmptyFrame(EXPECTED_COLUMNS)
  /\ merged_df = << >>
  /\ last_op = "init"
  /\ rerun = FALSE
  /\ steps = 0
  /\ hist = [n \in DOMAIN status_df.rows |-> no_run]
  /\ args = [new_df_raw |-> new_df_raw, current_status_df |-> current_status_df]
  /\ report = None
  /\ tree = populate_treeview(status_df)

\* The button Refresh All Statistics, pressed on the day today; the
\* session stays within one day.
RefreshStats ==
  \E today \in 0 .. MaxDay :
    /\ report # None => today = report.today
    /\ report' = display_all_stats(status_df, today)
    /\ last_op' = "display"
    /\ UNCHANGED << status_df, now, new_df_raw, current_status_df, merged_df,
                    rerun, steps, hist, args, tree >>

ImportReport ==
  \E file \in ReportFiles :
    /\ steps < MaxReportImports
    /\ load_new_excel_data(file, now)

ReportNext == RefreshStats \/ ImportReport

ReportSpec == ReportInit /\ [][ReportNext]_vars

\* ------------------------------------------- claims on the engine itself
\* A step that is a call of process_data, and the batch of that call as the
\* engine reads it.
is_call == steps' = steps + 1 /\ last_op' \in {"import", "failed"}

batch_read == sanitized(args.new_df_raw)

trimmed(v) == Str(strip(py_str(v)))

\* C12: a batch row and a snapshot row whose raw keys have the same trimmed
\* string form (a number and its text, a text and the same text with blanks
\* around it) are one record: the call classifies the pair Continuing, a
\* merged row built from both.
C12_KeysNormalized ==
  after_import =>
    \A i \in DOMAIN incoming.rows : \A j \in DOMAIN current_status_df.rows :
      trimmed(incoming.rows[i][key_column])
          = trimmed(current_status_df.rows[j][key_column])
        => \E n \in DOMAIN merged_df :
             /\ merged_df[n].li = j
             /\ merged_df[n].ri = i
             /\ merge_type_of(n) = "both"

\* C13: the engine reads no clock or other state of its own: what a call
\* returns is determined by what the call is given.  process_data is given
\* the batch and the snapshot, so a call given the same two frames as the
\* call before it returns the same set, the notes of the Missing records
\* included.
C13_PureOfArguments ==
  [][(is_call /\ rerun') => status_df' = status_df]_vars

\* C14: when a call has returned, with a frame or with a failure, the two
\* frames its caller passed hold what they held when they were passed: the
\* same columns, the same records, the same key values.
C14_InputsUnchanged ==
  last_op \in {"import", "failed"} =>
    /\ args.new_df_raw = new_df_raw
    /\ args.current_status_df = current_status_df

\* C15: empty inputs are no error.  A call whose batch has the key field
\* returns a frame.  With a snapshot without records the result is the
\* batch: one record per batch row, New, with the incoming value of each
\* source-owned field or a null where the batch has none.  With a batch
\* without rows the result is the snapshot: one record per persisted
\* record, marked Missing, its source-owned fields as persisted.  With both
\* empty the result is the frame of the canonical columns without records.
C15_EmptyInputs ==
  /\ last_op = "failed" => key_column \notin Range(incoming.columns)
  /\ (after_import /\ current_status_df.rows = << >>) =>
       /\ Len(status_df.rows) = Len(incoming.rows)
       /\ \A i \in DOMAIN incoming.rows :
            \E n \in DOMAIN status_df.rows :
              /\ merged_df[n].ri = i
              /\ merged_df[n].li = 0
              /\ out_key(n) = normalized(incoming.rows[i][key_column])
              /\ status_df.rows[n]["Status"] = Str(<< "New" >>)
              /\ status_df.rows[n]["Notes"] = Str(<< >>)
              /\ \A col \in SourceFields :
                   IF col \in Range(incoming.columns)
                        /\ notna(incoming.rows[i][col])
                     THEN status_df.rows[n][col] = incoming.rows[i][col]
                   ELSE ~notna(status_df.rows[n][col])
  /\ (after_import /\ incoming.rows = << >>) =>
       /\ Len(status_df.rows) = Len(current_status_df.rows)
       /\ \A j \in DOMAIN current_status_df.rows :
            \E n \in DOMAIN status_df.rows :
              /\ merged_df[n].li = j
              /\ merged_df[n].ri = 0
              /\ out_key(n) = normalized(current_status_df.rows[j][key_column])
              /\ status_df.rows[n]["Status"] = Str(<< REVIEW_MISSING_STATUS >>)
              /\ \A col \in SourceFields :
                   same_value(status_df.rows[n][col],
                              current_status_df.rows[j][col])
  /\ (after_import /\ incoming.rows = << >> /\ current_status_df.rows = << >>)
       => status_df = EmptyFrame(EXPECTED_COLUMNS)

C15_Witness ==
  /\ after_import
  /\ incoming.rows = << >>
  /\ Len(current_status_df.rows) = 2
  /\ Len(status_df.rows) = 2
  /\ \A n \in DOMAIN status_df.rows :
       status_df.rows[n]["Status"] = Str(<< REVIEW_MISSING_STATUS >>)

\* ------------------------------------------- claims on the statistics
\* The statistics shown were computed from the table as it is now.
fresh == last_op = "display" /\ report.open_jobs_df # None

shown_rows == report.open_jobs_df.rows

\* The rows of the open jobs, and of a list of the report, that hold the
\* key of row n of the table.
shown(n) == {r \in Range(shown_rows) : r[key_column] = out_key(n)}

listed(rows, n) == \E i \in DOMAIN rows : rows[i][key_column] = out_key(n)

\* C16: a Continuing record whose incoming balance is zero has balance zero
\* after the import, not the persisted balance; in the statistics its
\* outstanding balance is 0, with a positive invoice total its collected
\* percentage is 100 and it is not a low-collection job, and at no age is
\* it a high-value aging job.
C16_ZeroBalance ==
  (fresh /\ steps > 0) =>
    \A n \in ContinuingRows :
      incoming_of(n)["Balance"] = Num(0) =>
        /\ status_df.rows[n]["Balance"] = Num(0)
        /\ ~listed(report.hv_aging_df, n)
        /\ \A r \in shown(n) :
             /\ r["Balance_numeric"] = Num(0)
             /\ r["InvoiceTotal_numeric"].num > 0 =>
                  /\ r["InvoiceTotal_numeric"].num - r["Balance_numeric"].num
                       = r["InvoiceTotal_numeric"].num
                  /\ collected_percentage(r) = 100
                  /\ ~listed(report.low_collection_jobs_df, n)

C16_Witness ==
  /\ fresh
  /\ steps > 0
  /\ \E n \in ContinuingRows :
       /\ persisted_of(n)["Balance"] = Num(100)
       /\ persisted_of(n)["Invoice Total"] = Num(1000)
       /\ incoming_of(n)["Balance"] = Num(0)
       /\ incoming_of(n)["Invoice Total"] = Num(1000)
       /\ \E r \in shown(n) :
            /\ r["JobAge_days"] = Num(58)
            /\ r["Status"] = Str(<< "In install" >>)

\* The bucket an age of zero or more days belongs to, by the ranges 0-7,
\* 8-21, 22-49, 50-56 and 57 or more.
bucket_of_age(a) ==
  IF a \in 0..7 THEN 1
  ELSE IF a \in 8..21 THEN 2
  ELSE IF a \in 22..49 THEN 3
  ELSE IF a \in 50..56 THEN 4
  ELSE 5

\* C17: every open job whose turn-in date is today or earlier has as its age
\* the whole days since that date and is in the one bucket of its age:
\* 0-7 the first, 8-21 the second, 22-49 the third, 50-56 the fourth, 57
\* and more the fifth.
C17_AgeBuckets ==
  fresh =>
    \A i \in DOMAIN shown_rows :
      LET r == shown_rows[i]
      IN  (notna(r["Turn in Date"]) /\ r["Turn in Date"].date <= report.today) =>
            /\ r["JobAge_days"] = Num(report.today - r["Turn in Date"].date)
            /\ r["Age_Bucket"]
                 = Str(<< age_labels[bucket_of_age(r["JobAge_days"].num)] >>)
            /\ Cardinality({b \in DOMAIN age_labels :
                              r["Age_Bucket"] = Str(<< age_labels[b] >>)}) = 1

C17_Witness ==
  /\ fresh
  /\ \E i, j \in DOMAIN shown_rows :
       /\ shown_rows[i]["JobAge_days"] = Num(56)
       /\ shown_rows[i]["Age_Bucket"] = Str(<< age_labels[4] >>)
       /\ shown_rows[j]["JobAge_days"] = Num(57)
       /\ shown_rows[j]["Age_Bucket"] = Str(<< age_labels[5] >>)

\* C18: an open job without a valid turn-in date has a null age and a null
\* bucket, is counted in none of the five buckets and is in neither the
\* stuck list nor the high-value aging list; the other open jobs, turned in
\* today or earlier, have their bucket.
C18_NullTurnInDate ==
  fresh =>
    /\ \A i \in DOMAIN shown_rows :
         LET r == shown_rows[i]
         IN  IF "date" \in DOMAIN r["Turn in Date"]
             THEN r["Turn in Date"].date <= report.today => notna(r["Age_Bucket"])
             ELSE /\ r["JobAge_days"] = NA
                  /\ r["Age_Bucket"] = NA
                  /\ \A k \in DOMAIN report.stuck_jobs_df :
                       report.stuck_jobs_df[k][key_column] # r[key_column]
                  /\ \A k \in DOMAIN report.hv_aging_df :
                       report.hv_aging_df[k][key_column] # r[key_column]
    /\ \A b \in DOMAIN age_labels :
         /\ report.bucket_counts[b]
              = Cardinality({i \in DOMAIN shown_rows :
                               /\ "date" \in DOMAIN shown_rows[i]["Turn in Date"]
                               /\ shown_rows[i]["Age_Bucket"]
                                    = Str(<< age_labels[b] >>)})
         /\ report.financial_by_bucket[b].Job_Count = report.bucket_counts[b]

C18_Witness ==
  /\ fresh
  /\ report.today = 60
  /\ \E i, j \in DOMAIN shown_rows :
       /\ shown_rows[i]["Turn in Date"] = NaT
       /\ shown_rows[i]["Status"] = Str(<< "New" >>)
       /\ shown_rows[i]["Balance_numeric"].num > value_threshold
       /\ shown_rows[i]["JobAge_days"] = NA
       /\ shown_rows[j]["Age_Bucket"] = Str(<< age_labels[5] >>)
       /\ Len(report.hv_aging_df) > 0

\* The rows of the table whose status is none of Closed,
\* Cancelled/Postponed and the marker of a job missing from the report.
open_records ==
  {n \in DOMAIN status_df.rows :
     status_df.rows[n]["Status"]
       \notin {Str(<< "Closed" >>), Str(<< "Cancelled/Postponed" >>),
                Str(<< REVIEW_MISSING_STATUS >>)}}

RECURSIVE SumFn(_)
SumFn(f) ==
  IF DOMAIN f = {} THEN 0
  ELSE LET x == CHOOSE y \in DOMAIN f : TRUE
       IN  f[x] + SumFn([y \in DOMAIN f \ {x} |-> f[y]])

\* The sum of the amounts of a column over a set of rows of the table.
amount_over(S, col) ==
  SumFn([n \in S |-> to_numeric_currency(status_df.rows[n][col]).num])

\* The open rows of the table that the day of the report puts in bucket b.
open_in_bucket(b) ==
  {n \in open_records :
     LET d == status_df.rows[n]["Turn in Date"]
     IN  /\ "date" \in DOMAIN d
         /\ d.date <= report.today
         /\ bucket_of_age(report.today - d.date) = b}

\* C19: the status histogram, the financial totals, the aggregates of each
\* coordinator and of each bucket, and the stuck, high-value aging and
\* low-collection lists are those of the open records alone: a job that is
\* Closed, Cancelled/Postponed or marked missing from the report counts in
\* none of them, and every other job of the table is among the open jobs.
C19_OpenRecordsOnly ==
  fresh =>
    /\ {shown_rows[i][key_column] : i \in DOMAIN shown_rows}
         = {out_key(n) : n \in open_records}
    /\ Len(shown_rows) = Cardinality(open_records)
    /\ report.num_open_jobs = Cardinality(open_records)
    /\ DOMAIN report.open_status_counts
         = {status_df.rows[n]["Status"] : n \in open_records}
    /\ \A v \in DOMAIN report.open_status_counts :
         report.open_status_counts[v]
           = Cardinality({n \in open_records : status_df.rows[n]["Status"] = v})
    /\ report.financial.total_invoice = amount_over(open_records, "Invoice Total")
    /\ report.financial.total_outstanding_balance
         = amount_over(open_records, "Balance")
    /\ DOMAIN report.coordinators
         = {status_df.rows[n]["Project Coordinator"] :
              n \in {m \in open_records :
                       notna(status_df.rows[m]["Project Coordinator"])}}
    /\ \A pc \in DOMAIN report.coordinators :
         LET of_pc == {n \in open_records :
                         status_df.rows[n]["Project Coordinator"] = pc}
         IN  /\ report.coordinators[pc].count = Cardinality(of_pc)
             /\ report.coordinators[pc].financial.total_invoice
                  = amount_over(of_pc, "Invoice Total")
             /\ report.coordinators[pc].financial.total_outstanding_balance
                  = amount_over(of_pc, "Balance")
    /\ \A b \in DOMAIN age_labels :
         /\ report.bucket_counts[b] = Cardinality(open_in_bucket(b))
         /\ report.financial_by_bucket[b].Job_Count = Cardinality(open_in_bucket(b))
         /\ report.financial_by_bucket[b].Total_Invoice_Value
              = amount_over(open_in_bucket(b), "Invoice Total")
         /\ report.financial_by_bucket[b].Total_Outstanding_Balance
              = amount_over(open_in_bucket(b), "Balance")
    /\ \A n \in DOMAIN status_df.rows \ open_records :
         /\ ~listed(report.stuck_jobs_df, n)
         /\ ~listed(report.hv_aging_df, n)
         /\ ~listed(report.low_collection_jobs_df, n)

C19_Witness ==
  /\ fresh
  /\ report.today = 60
  /\ report.num_total_jobs_loaded = 3
  /\ report.num_open_jobs = 1
  /\ \E n, m \in DOMAIN status_df.rows :
       /\ status_df.rows[n]["Status"] = Str(<< "Closed" >>)
       /\ status_df.rows[n]["Invoice Total"] = Num(1000)
       /\ status_df.rows[m]["Status"] = Str(<< REVIEW_MISSING_STATUS >>)
       /\ status_df.rows[m]["Balance"] = Num(20000)

\* The rows of the table that are stuck on the day of the report: open, in
\* one of the three early statuses, and turned in more than 21 days ago.
stuck_records ==
  {n \in open_records :
     LET d == status_df.rows[n]["Turn in Date"]
     IN  /\ status_df.rows[n]["Status"]
              \in {Str(<< "New" >>), Str(<< "Waiting Measure" >>),
                    Str(<< "Ready to order" >>)}
         /\ "date" \in DOMAIN d
         /\ report.today - d.date > 21}

\* C20: the stuck list holds exactly the open jobs that are New, Waiting
\* Measure or Ready to order and older than 21 days: a job of exactly 21
\* days, and a job in any other status, is not in it.
C20_StuckList ==
  fresh =>
    /\ \A n \in DOMAIN status_df.rows :
         listed(report.stuck_jobs_df, n) <=> n \in stuck_records
    /\ Len(report.stuck_jobs_df) = Cardinality(stuck_records)

C20_Witness ==
  /\ fresh
  /\ report.today = 23
  /\ \E n, m \in DOMAIN status_df.rows :
       /\ status_df.rows[n]["Status"] = Str(<< "New" >>)
       /\ status_df.rows[n]["Turn in Date"] = Date(2)
       /\ ~listed(report.stuck_jobs_df, n)
       /\ status_df.rows[m]["Status"] = Str(<< "Ready to order" >>)
       /\ status_df.rows[m]["Turn in Date"] = Date(1)
       /\ listed(report.stuck_jobs_df, m)

\* The rows of the table that are high-value aging on the day of the
\* report: open, turned in more than 56 days ago, more than 10,000
\* outstanding.
hv_records ==
  {n \in open_records :
     LET d == status_df.rows[n]["Turn in Date"]
     IN  /\ "date" \in DOMAIN d
         /\ report.today - d.date > 56
         /\ to_numeric_currency(status_df.rows[n]["Balance"]).num > 10000}

\* C21: the high-value aging list holds exactly the open jobs older than 56
\* days whose outstanding balance is over 10,000: a job of exactly 56 days,
\* and a job with a balance of exactly 10,000, is not in it.
C21_HighValueAging ==
  fresh =>
    /\ \A n \in DOMAIN status_df.rows :
         listed(report.hv_aging_df, n) <=> n \in hv_records
    /\ Len(report.hv_aging_df) = Cardinality(hv_records)

C21_Witness ==
  /\ fresh
  /\ report.today = 58
  /\ \E n, m \in DOMAIN status_df.rows :
       /\ n \in open_records
       /\ status_df.rows[n]["Turn in Date"] = Date(2)
       /\ status_df.rows[n]["Balance"] = Num(10001)
       /\ ~listed(report.hv_aging_df, n)
       /\ status_df.rows[m]["Turn in Date"] = Date(1)
       /\ listed(report.hv_aging_df, m)

\* The collected part of the invoice total of row n of the table is under
\* 35 percent; a zero total counts as nothing collected.
collects_under_35(n) ==
  LET total == to_numeric_currency(status_df.rows[n]["Invoice Total"]).num
      balance == to_numeric_currency(status_df.rows[n]["Balance"]).num
  IN  IF total > 0 THEN (total - balance) * 100 < 35 * total
      ELSE IF total < 0 THEN (total - balance) * 100 > 35 * total
      ELSE TRUE

low_collection_records(not_expected) ==
  {n \in open_records :
     /\ status_df.rows[n]["Status"] \notin {Str(<< st >>) : st \in not_expected}
     /\ collects_under_35(n)}

\* C22 as stated: the low-collection list holds exactly the open jobs with
\* less than 35 percent collected whose status is none of the early
\* statuses New, Waiting Measure and Ready to order.
C22_LowCollectionEarly ==
  fresh =>
    \A n \in DOMAIN status_df.rows :
      listed(report.low_collection_jobs_df, n)
        <=> n \in low_collection_records({"New", "Waiting Measure", "Ready to order"})

\* C22: the low-collection list holds exactly the open jobs with less than
\* 35 percent collected whose status is neither New nor Waiting Measure; a
\* Ready to order job with less than 35 percent collected is in it.
C22_LowCollection ==
  fresh =>
    /\ \A n \in DOMAIN status_df.rows :
         listed(report.low_collection_jobs_df, n)
           <=> n \in low_collection_records({"New", "Waiting Measure"})
    /\ Len(report.low_collection_jobs_df)
         = Cardinality(low_collection_records({"New", "Waiting Measure"}))

C22_Witness ==
  /\ fresh
  /\ \E n, m \in DOMAIN status_df.rows :
       /\ status_df.rows[n]["Status"] = Str(<< "Ready to order" >>)
       /\ status_df.rows[n]["Balance"] = Num(651)
       /\ status_df.rows[n]["Invoice Total"] = Num(1000)
       /\ listed(report.low_collection_jobs_df, n)
       /\ status_df.rows[m]["Status"] = Str(<< "New" >>)
       /\ status_df.rows[m]["Balance"] = Num(20000)
       /\ status_df.rows[m]["Invoice Total"] = Num(30000)
       /\ ~listed(report.low_collection_jobs_df, m)

\* The rows of the low-collection list that hold the key of row n of the
\* table.
low_lines(n) ==
  {r \in Range(report.low_collection_jobs_df) : r[key_column] = out_key(n)}

\* C23: an open job whose invoice total is zero has a collected percentage
\* of 0, whatever its balance, and the statistics are produced all the
\* same: the job is on the low-collection list with 0 percent unless it is
\* New or Waiting Measure, and the jobs with a positive total have the
\* percentage of their own amounts.
C23_ZeroInvoiceTotal ==
  fresh =>
    \A n \in open_records :
      LET total == to_numeric_currency(status_df.rows[n]["Invoice Total"]).num
          balance == to_numeric_currency(status_df.rows[n]["Balance"]).num
      IN  /\ total = 0 =>
               /\ status_df.rows[n]["Status"]
                    \notin {Str(<< "New" >>), Str(<< "Waiting Measure" >>)}
                    => low_lines(n) # {}
               /\ \A r \in low_lines(n) :
                    r["Collected_Percentage_Actual"] = Num(0)
          /\ total > 0 =>
               \A r \in low_lines(n) :
                 LET p == r["Collected_Percentage_Actual"].num
                 IN  /\ p * total <= (total - balance) * 100
                     /\ (total - balance) * 100 < (p + 1) * total

C23_Witness ==
  /\ fresh
  /\ \E n, m \in open_records :
       /\ status_df.rows[n]["Invoice Total"] = Num(0)
       /\ status_df.rows[n]["Balance"] = Num(5)
       /\ \E r \in low_lines(n) : r["Collected_Percentage_Actual"] = Num(0)
       /\ status_df.rows[m]["Invoice Total"] = Num(20000)
       /\ report.financial.total_invoice >= 20000

\* C24: in the open jobs of the statistics the coerced invoice total and
\* balance are numbers, none of them negative, and an amount of the table
\* that is null or no number is 0.
C24_CoercedAmounts ==
  fresh =>
    \A i \in DOMAIN shown_rows :
      \A pair \in {<< "Balance", "Balance_numeric" >>,
                    << "Invoice Total", "InvoiceTotal_numeric" >>} :
        LET raw == shown_rows[i][pair[1]]
            coerced == shown_rows[i][pair[2]]
        IN  /\ "num" \in DOMAIN coerced
            /\ coerced.num >= 0
            /\ ("null" \in DOMAIN raw \/ raw = Str(<< "n", "/", "a" >>))
                 => coerced = Num(0)

\* The open rows of the table of one coordinator.
open_of_coordinator(pc) ==
  {n \in open_records : status_df.rows[n]["Project Coordinator"] = pc}

\* C25: the total collected is the total invoice value less the total
\* outstanding balance, overall, for each coordinator and for each age
\* bucket, and each total is the sum over the open jobs of its group and
\* no others.
C25_CollectedIdentity ==
  fresh =>
    /\ report.financial.total_invoice = amount_over(open_records, "Invoice Total")
    /\ report.financial.total_outstanding_balance
         = amount_over(open_records, "Balance")
    /\ report.financial.total_collected_calculated
         = amount_over(open_records, "Invoice Total")
             - amount_over(open_records, "Balance")
    /\ \A pc \in DOMAIN report.coordinators :
         LET of_pc == report.coordinators[pc].financial
         IN  /\ of_pc.total_invoice
                  = amount_over(open_of_coordinator(pc), "Invoice Total")
             /\ of_pc.total_outstanding_balance
                  = amount_over(open_of_coordinator(pc), "Balance")
             /\ of_pc.total_collected_calculated
                  = of_pc.total_invoice - of_pc.total_outstanding_balance
    /\ \A b \in DOMAIN age_labels :
         LET data == report.financial_by_bucket[b]
         IN  /\ data.Total_Invoice_Value
                  = amount_over(open_in_bucket(b), "Invoice Total")
             /\ data.Total_Outstanding_Balance
                  = amount_over(open_in_bucket(b), "Balance")
             /\ data.calculated_collected
                  = data.Total_Invoice_Value - data.Total_Outstanding_Balance

C25_Witness ==
  /\ fresh
  /\ report.today = 58
  /\ report.num_open_jobs = 3
  /\ report.financial.total_invoice = 51000
  /\ report.financial.total_outstanding_balance = 32100
  /\ report.financial.total_collected_calculated = 18900
  /\ Str(<< "A" >>) \in DOMAIN report.coordinators
  /\ report.coordinators[Str(<< "A" >>)].financial.total_collected_calculated = 900
  /\ report.financial_by_bucket[5].calculated_collected = 8000
  /\ report.financial_by_bucket[4].calculated_collected = 900

\* ------------------------------------------- the import, from the file
\* What the file dialog of load_new_excel_data can come back with: nothing
\* (the dialog was cancelled) or a file.  A file is unreadable or a
\* workbook; header_0 is the frame pd.read_excel makes of a workbook with
\* its first row as header, header_1 the one with its second row.
Cancelled == [path |-> ""]

workbook(readable, header_0, header_1) ==
  [path |-> "xlsx", readable |-> readable,
   header_0 |-> header_0, header_1 |-> header_1]

TitleFrame == [columns |-> << "Open Jobs Report" >>, rows |-> << >>]

DataAsHeader == [columns |-> << "1", "100" >>, rows |-> << >>]

SelectedFiles ==
  { Cancelled,
    workbook(FALSE, TitleFrame, TitleFrame),
    workbook(TRUE, excel_frame(FullHeader, << row_a >>), DataAsHeader),
    workbook(TRUE, excel_frame(ShortHeader, << row_c >>), DataAsHeader),
    workbook(TRUE, TitleFrame, excel_frame(FullHeader, << row_b, row_c >>)),
    workbook(TRUE, raw_frame(<< " Invoice # ", "Balance" >>, << row_a >>),
             DataAsHeader),
    workbook(TRUE, raw_frame(<< "Balance", "Order Date" >>, << row_a >>),
             DataAsHeader),
    workbook(TRUE, TitleFrame, raw_frame(<< "Balance", "Order Date" >>, << >>)),
    workbook(TRUE, raw_frame(<< "Invoice #", " Invoice # ", "Balance" >>,
                             << row_c >>), DataAsHeader) }

\* df.columns = [str(col).strip() for col in df.columns]: a name that two
\* columns come to share stays in the header twice, its cells are those of
\* the first of them.
stripped_columns(df) ==
  LET named == [i \in DOMAIN df.columns |-> stripped_name(df.columns[i])]
      first(c) == CHOOSE i \in DOMAIN named :
                    /\ named[i] = c
                    /\ \A j \in DOMAIN named : named[j] = c => i <= j
  IN  [columns |-> named,
       rows |-> [n \in DOMAIN df.rows |->
                  [c \in Range(named) |-> df.rows[n][df.columns[first(c)]]]]]

\* The date columns of a loaded frame, through pd.to_datetime.  The dates
\* of the workbooks are not after the day they are loaded on, and
\* _adjust_ambiguous_date_years leaves such dates as they are.
dates_coerced(df) ==
  [columns |-> df.columns,
   rows |-> [n \in DOMAIN df.rows |->
              [c \in Range(df.columns) |->
                 IF c \in date_cols_config THEN to_datetime(df.rows[n][c])
                 ELSE df.rows[n][c]]]]

\* data_utils.load_excel: None for a file that cannot be read and for a
\* workbook with Invoice # in neither of its first two rows.
load_excel(excel_file) ==
  IF ~excel_file.readable THEN None
  ELSE LET first_try == stripped_columns(excel_file.header_0)
           second_try == stripped_columns(excel_file.header_1)
       IN  IF key_column \in Range(first_try.columns)
             THEN dates_coerced(first_try)
           ELSE IF key_column \in Range(second_try.columns)
             THEN dates_coerced(second_try)
           ELSE None

\* pd.merge on a key column that is in the import's header twice raises
\* ValueError (the column label is not unique).
merge_raises(new_df) ==
  \E i, j \in DOMAIN new_df.columns :
    /\ i # j
    /\ sanitized_name(new_df.columns[i]) = key_column
    /\ sanitized_name(new_df.columns[j]) = key_column

\* What load_new_excel_data leaves behind when it returns early.
import_abandoned(outcome) ==
  /\ status_df' = status_df
  /\ last_op' = outcome
  /\ rerun' = FALSE
  /\ hist' = hist
  /\ UNCHANGED << now, new_df_raw, current_status_df, merged_df, args, report,
                  tree >>

\* Variant of open_excel_file: the table is given up before the file is
\* known to be good, a file that fails leaves an empty table.
open_excel_file_table_first(excel_file, clock) ==
  /\ steps < MaxSteps
  /\ steps' = steps + 1
  /\ IF excel_file = Cancelled THEN import_abandoned("cancelled")
     ELSE LET loaded == load_excel(excel_file)
          IN  IF loaded = None \/ merge_raises(loaded)
                THEN /\ status_df' = EmptyFrame(EXPECTED_COLUMNS)
                     /\ hist' = << >>
                     /\ last_op' = "load_failed"
                     /\ rerun' = FALSE
                     /\ UNCHANGED << now, new_df_raw, current_status_df,
                                     merged_df, args, report, tree >>
              ELSE /\ now' = clock
                   /\ call_process_data(loaded, copy(status_df), clock)
                   /\ hist' = IF last_op' = "import"
                                THEN hist_after_import(merged_df',
                                                       current_status_df', clock)
                              ELSE hist
                   /\ rerun' = (last_op = "import" /\ new_df_raw = loaded)
                   /\ tree' = IF last_op' = "import"
                                THEN populate_treeview(status_df') ELSE tree
                   /\ UNCHANGED report

\* OpenJobsApp.load_new_excel_data from the file dialog on, at the minute
\* clock: the dialog, load_excel, process_data on a copy of the table in
\* the try block, and the table replaced only when all of it went well.
open_excel_file(excel_file, clock) ==
  /\ steps < MaxSteps
  /\ steps' = steps + 1
  /\ IF excel_file = Cancelled THEN import_abandoned("cancelled")
     ELSE LET loaded == load_excel(excel_file)
          IN  IF loaded = None THEN import_abandoned("load_failed")
              ELSE IF merge_raises(loaded) THEN import_abandoned("raised")
              ELSE /\ now' = clock
                   /\ call_process_data(loaded, copy(status_df), clock)
                   /\ hist' = IF last_op' = "import"
                                THEN hist_after_import(merged_df',
                                                       current_status_df', clock)
                              ELSE hist
                   /\ rerun' = (last_op = "import" /\ new_df_raw = loaded)
                   /\ tree' = IF last_op' = "import"
                                THEN populate_treeview(status_df') ELSE tree
                   /\ UNCHANGED report

OpenFile ==
  \E excel_file \in SelectedFiles, clock \in now .. MaxClock :
    open_excel_file(excel_file, clock)

ImportNext == OpenFile \/ EditStatus \/ EditNotes \/ DeleteRows

ImportSpec == Init /\ [][ImportNext]_vars

\* ------------------------------------------- a session with statistics
\* The application with its two tabs: imports, edits and deletions in the
\* Data Management tab, and Refresh All Statistics in the Reporting tab,
\* pressed on the last day.
ShowStats ==
  /\ report' = display_all_stats(status_df, MaxDay)
  /\ last_op' = "display"
  /\ UNCHANGED << status_df, now, new_df_raw, current_status_df, merged_df,
                  rerun, steps, hist, args, tree >>

SessionNext == Import \/ EditStatus \/ EditNotes \/ DeleteRows \/ ShowStats

SessionSpec == Init /\ [][SessionNext]_vars

\* ------------------------------------------- the Data Management tab
\* The user imports, edits cells, deletes rows and sorts the view by a
\* column, in any order.
ViewNext == Import \/ EditStatus \/ EditNotes \/ DeleteRows \/ SortColumn

ViewSpec == Init /\ [][ViewNext]_vars

\* --------------------------------------------- claims on the application
import_failed == last_op \in {"load_failed", "failed", "raised"}

\* C26: an import that fails, because the file cannot be loaded, because
\* process_data returns None or because the processing raises, leaves the
\* table of the application as it was: no record added, removed or
\* changed.
C26_FailedImportKeepsTable ==
  [][import_failed' => status_df' = status_df]_vars

C26_Witness ==
  /\ import_failed
  /\ steps = 2
  /\ Len(status_df.rows) = 2
  /\ \E n \in DOMAIN status_df.rows :
       status_df.rows[n]["Status"] = Str(<< REVIEW_MISSING_STATUS >>)

marked_missing(row) == row["Status"] = Str(<< REVIEW_MISSING_STATUS >>)

\* C27: an import never takes the mark of a missing job away.  A job that
\* is marked missing and is in the import again is Continuing: it takes
\* the values the import has for its source-owned fields and keeps the
\* mark as its status and its notes, alerts included; and as long as a job
\* carries the mark, the statistics leave it out of the open jobs and of
\* everything computed from them.
C27_SentinelKept ==
  /\ after_import =>
       \A n \in ContinuingRows :
         marked_missing(persisted_of(n)) =>
           /\ marked_missing(status_df.rows[n])
           /\ status_df.rows[n]["Notes"] = persisted_of(n)["Notes"]
           /\ \A col \in SourceFields :
                incoming_has(n, col) => status_df.rows[n][col] = incoming_of(n)[col]
  /\ fresh =>
       /\ \A i \in DOMAIN shown_rows : ~marked_missing(shown_rows[i])
       /\ Len(shown_rows)
            = Cardinality({n \in DOMAIN status_df.rows :
                             ~isin(status_df.rows[n]["Status"],
                                   {"Closed", "Cancelled/Postponed",
                                    REVIEW_MISSING_STATUS})})
       /\ Str(<< REVIEW_MISSING_STATUS >>) \notin DOMAIN report.open_status_counts
       /\ \A rows \in {report.stuck_jobs_df, report.hv_aging_df,
                         report.low_collection_jobs_df} :
            \A k \in DOMAIN rows : ~marked_missing(rows[k])

\* The statistics after two imports: job 1 of the saved table was missing
\* from the first, is in the second, and still carries the mark and the
\* alert under the values of the second.
C27_Witness ==
  /\ last_op = "display"
  /\ steps = 2
  /\ report.open_jobs_df # None
  /\ \E n \in DOMAIN status_df.rows \cap ContinuingRows :
       /\ marked_missing(status_df.rows[n])
       /\ marked_missing(persisted_of(n))
       /\ has_prefix(status_df.rows[n]["Notes"].str, << "System Alert (" >>)
       /\ has_suffix(status_df.rows[n]["Notes"].str, << "ok" >>)
       /\ incoming_has(n, "Invoice Total")
       /\ status_df.rows[n]["Invoice Total"] = incoming_of(n)["Invoice Total"]
       /\ status_df.rows[n]["Invoice Total"] # persisted_of(n)["Invoice Total"]
       /\ report.num_open_jobs < report.num_total_jobs_loaded

\* C28: whatever imports, status edits, notes edits and deletions were
\* made, from an empty table on, the status of every record of the table
\* is one of ALLOWED_STATUS (REVIEW_MISSING_STATUS is one of them).
C28_StatusAllowed ==
  /\ REVIEW_MISSING_STATUS \in Range(ALLOWED_STATUS)
  /\ \A n \in DOMAIN status_df.rows :
       \E st \in Range(ALLOWED_STATUS) : status_df.rows[n]["Status"] = Str(<< st >>)

\* Two imports on the empty table: job 2 is new in the first and missing
\* from the second, which brings job 1.
C28_Witness ==
  /\ steps = 2
  /\ \A n \in DOMAIN status_df.rows : out_key(n) # Str(<< "3" >>)
  /\ \E n, m \in DOMAIN status_df.rows :
       /\ out_key(n) = Str(<< "2" >>)
       /\ status_df.rows[n]["Status"] = Str(<< REVIEW_MISSING_STATUS >>)
       /\ out_key(m) = Str(<< "1" >>)
       /\ status_df.rows[m]["Status"] = Str(<< "New" >>)

\* The open rows of the table whose turn-in date is after the day of the
\* report.
turned_in_later ==
  {n \in open_records :
     /\ "date" \in DOMAIN status_df.rows[n]["Turn in Date"]
     /\ status_df.rows[n]["Turn in Date"].date > report.today}

\* C29: an open job whose turn-in date is after today has a negative age
\* and no bucket.  It is among the open jobs, in the status histogram and
\* in the overall totals, it is counted in none of the five buckets and
\* it is neither stuck nor high-value aging.
C29_FutureTurnIn ==
  fresh =>
    /\ \A n \in turned_in_later :
         /\ shown(n) # {}
         /\ \A r \in shown(n) :
              /\ r["JobAge_days"]
                   = Num(report.today - status_df.rows[n]["Turn in Date"].date)
              /\ r["JobAge_days"].num < 0
              /\ r["Age_Bucket"] = NA
         /\ status_df.rows[n]["Status"] \in DOMAIN report.open_status_counts
         /\ ~listed(report.stuck_jobs_df, n)
         /\ ~listed(report.hv_aging_df, n)
    /\ report.num_open_jobs = Cardinality(open_records)
    /\ \A v \in DOMAIN report.open_status_counts :
         report.open_status_counts[v]
           = Cardinality({n \in open_records : status_df.rows[n]["Status"] = v})
    /\ report.financial.total_invoice = amount_over(open_records, "Invoice Total")
    /\ report.financial.total_outstanding_balance
         = amount_over(open_records, "Balance")
    /\ \A b \in DOMAIN age_labels :
         report.bucket_counts[b] = Cardinality(open_in_bucket(b) \ turned_in_later)

C29_Witness ==
  /\ fresh
  /\ report.today = 1
  /\ \E n \in turned_in_later :
       /\ status_df.rows[n]["Status"] = Str(<< "New" >>)
       /\ status_df.rows[n]["Balance"] = Num(10001)
       /\ \E r \in shown(n) : r["JobAge_days"] = Num(0 - 1)
  /\ report.bucket_counts[1] = 1
  /\ report.num_open_jobs = 3
  /\ report.financial.total_invoice = 70000

\* The view shows the table: one item for each row, the tags of the items
\* are the indices of the rows, each once, and an item shows the cells of
\* the row at its tag, its key among them.
tags_identify_rows ==
  /\ Len(tree) = Len(status_df.rows)
  /\ {tree[i].tags : i \in DOMAIN tree} = index_of(status_df)
  /\ \A i \in DOMAIN tree, col_name \in TextColumns :
       tree[i].values[col_name]
         = display_value(status_df.rows[tree[i].tags + 1][col_name])

\* The rows of the table that a step changed, and the items of the view
\* that show another cell after it.
rows_changed ==
  {n \in DOMAIN status_df.rows : status_df'.rows[n] # status_df.rows[n]}

items_changed == {i \in DOMAIN tree : tree'[i] # tree[i]}

\* An edit saved on the item changes the record the item shows, in the
\* column edited, and no other record and no other item.
edit_on_item(item_id, column_name) ==
  /\ Len(status_df'.rows) = Len(status_df.rows)
  /\ Len(tree') = Len(tree)
  /\ \A n \in rows_changed :
       /\ status_df.rows[n][key_column] = tree[item_id].values[key_column]
       /\ n = tree[item_id].tags + 1
       /\ \A col_name \in DOMAIN status_df.rows[n] :
            col_name # column_name
              => status_df'.rows[n][col_name] = status_df.rows[n][col_name]
  /\ items_changed \subseteq {item_id}
  /\ tree'[item_id].tags = tree[item_id].tags
  /\ tree'[item_id].values[column_name]
       = display_value(status_df'.rows[tree[item_id].tags + 1][column_name])

\* A delete on the items leaves the records the other items show, in the
\* order of the table, numbered from 0 on, and the view shows them so.
delete_on_items(selected_tree_items) ==
  LET gone == {tree[i].tags + 1 : i \in selected_tree_items}
      left == ascending(DOMAIN status_df.rows \ gone)
  IN  /\ Cardinality(gone) = Cardinality(selected_tree_items)
      /\ Len(status_df'.rows) = Len(status_df.rows) - Cardinality(gone)
      /\ \A a \in DOMAIN left : status_df'.rows[a] = status_df.rows[left[a]]
      /\ \A i \in DOMAIN tree \ selected_tree_items :
           \E n \in DOMAIN status_df'.rows :
             status_df'.rows[n] = status_df.rows[tree[i].tags + 1]
      /\ Len(tree') = Len(status_df'.rows)
      /\ \A n \in DOMAIN tree' : tree'[n].tags = n - 1

\* C30: after any sequence of imports, cell edits, row deletions and
\* column sorts the tag of each displayed row is the index of the row of
\* status_df that holds the same key, an edit issued on a displayed row
\* changes that record and no other, and a delete removes exactly the rows
\* at the tags of the selected items, renumbers the rest from 0 on without
\* gaps, and the view is populated again from the table.
C30_TagsIdentifyRows ==
  /\ []tags_identify_rows
  /\ [][/\ \A item_id \in DOMAIN tree :
            /\ (/\ last_op' = "edit_status"
                /\ \E picked \in Range(ALLOWED_STATUS) :
                     save_status_edit(item_id, picked))
                 => edit_on_item(item_id, "Status")
            /\ (/\ last_op' = "edit_notes"
                /\ \E typed \in NotesTyped : save_notes_edit(item_id, typed))
                 => edit_on_item(item_id, "Notes")
        /\ \A selected_tree_items \in SUBSET DOMAIN tree :
            (last_op' = "delete" /\ handle_delete_key(selected_tree_items))
              => delete_on_items(selected_tree_items)]_vars

\* A status was saved on an item of a view that is sorted out of the order
\* of the table: the item is not at the place of its row, and it shows the
\* status its row holds.
C30_Witness ==
  /\ last_op = "edit_status"
  /\ Len(tree) >= 2
  /\ \E i \in DOMAIN tree :
       /\ tree[i].tags # i - 1
       /\ hist[tree[i].tags + 1] = no_run
       /\ tree[i].values["Status"] = Str(<< "Permit" >>)
       /\ status_df.rows[tree[i].tags + 1]["Status"] = Str(<< "Permit" >>)
       /\ \A j \in DOMAIN tree \ {i} :
            tree[j].values["Status"] # Str(<< "Permit" >>)

====
